---- MODULE Spec2Model ----
(***************************************************************************)
(* Lighthouse multi-network resolution engine.                             *)
(*                                                                         *)
(*   EnrichmentPipeline   src/packages/engine/src/enrichment.ts            *)
(*   RpcPool              src/packages/engine/src/rpc-pool.ts              *)
(*   AddressResolver      src/unnamed/part_016 (the two-tier resolver      *)
(*                        with endpoint failover and a background pass)    *)
(*   CacheStore           src/unnamed/part_004                             *)
(*                                                                         *)
(* SpecPipeline explores EnrichmentPipeline.run over every bounded list of *)
(* enrichers.  Spec explores successive AddressResolver.resolve calls on   *)
(* one address with their background passes, sharing the pool and the      *)
(* cache.  SpecScan explores the synchronous pass of one resolve call:     *)
(* endpoint failover, the fast pipeline and cancellation.                  *)
(***************************************************************************)
EXTENDS Integers, Sequences, FiniteSets, TLC

(***************************************************************************)
(* Bounds                                                                  *)
(***************************************************************************)
NumEnrichers == 3       \* enrichers handed to the pipeline constructor
MaxPriority == 2        \* priorities are drawn from 1..MaxPriority
MaxCalls == 2           \* resolve() calls explored
MaxTime == 2            \* Date.now() when resolve() is called is in 0..MaxTime
MaxPicks == 4           \* pick() calls explored by SpecPool
MaxFailures == 8

\* acquire() calls sharing one RateLimiter in SpecLimiter
NumCallers == 2

\* the last instant of the clock explored by SpecLimiter
MaxClock == 24

MaxUserChains == 2       \* settings.userChains holds at most this many chains
MaxAllowlist == 2        \* settings.workspaceAllowlist holds at most this many ids
MaxConcurrent == 2       \* maxConcurrent is drawn from 0..MaxConcurrent

\* passes of acquire's loop explored per call (10_000 in the source)
AttemptLimit == 2        \* reportFailure() calls per endpoint explored by SpecBackoff

\* the sequences over S of length at most n
SeqsUpTo(S, n) == UNION {[1..k -> S] : k \in 0..n}

(***************************************************************************)
(* Generic helpers                                                         *)
(***************************************************************************)
Range(s) == {s[i] : i \in DOMAIN s}

(***************************************************************************)
(* EnrichmentPipeline                                                      *)
(*                                                                         *)
(* An enricher is a record [id, priority, beh].  beh is what the enricher  *)
(* does when the pipeline reaches it:                                      *)
(*   "skip"      supports(ctx) returns false                               *)
(*   "ok"        supports(ctx) is true, enrich(ctx) mutates info, fulfils  *)
(*   "fail"      supports(ctx) is true, enrich(ctx) rejects                *)
(*   "supBoom"   supports(ctx) throws an Error with a message              *)
(*   "supEmpty"  supports(ctx) throws an Error whose message is ""         *)
(***************************************************************************)
Behaviours == {"skip", "ok", "fail", "supBoom", "supEmpty"}
SupportsThrows == {"supBoom", "supEmpty"}

\* error.message of what supports() throws
ThrownMessage(beh) == IF beh = "supEmpty" THEN "" ELSE "boom"

RECURSIVE InsertByPriority(_, _)
\* e goes after every element whose priority is <= its own (Array.prototype.sort
\* is stable, so equal priorities keep the constructor's order)
InsertByPriority(sorted, e) ==
    IF sorted = <<>> THEN <<e>>
    ELSE IF Head(sorted).priority <= e.priority
         THEN <<Head(sorted)>> \o InsertByPriority(Tail(sorted), e)
         ELSE <<e>> \o sorted

RECURSIVE SortFrom(_, _)
SortFrom(acc, rest) ==
    IF rest = <<>> THEN acc
    ELSE SortFrom(InsertByPriority(acc, Head(rest)), Tail(rest))

\* a constructor that keeps the order it is given
KeepOrder(enrichers) == enrichers

\* constructor: [...enrichers].sort((a, b) => a.priority - b.priority)
SortByPriority(enrichers) == SortFrom(<<>>, enrichers)

\* A run is [st, idx, err]: st = "await" while enrich() of sorted[idx] is
\* pending, "done" when run() has returned, "raised" when run() rejected with
\* message err.
RunReady == [st |-> "ready", idx |-> 0, err |-> ""]

RECURSIVE AdvanceIgnoringSignal(_, _, _, _)
\* a run() that never looks at the signal
AdvanceIgnoringSignal(n, i, isAborted, beh) ==
    IF i > n THEN [st |-> "done", idx |-> i, err |-> ""]
    ELSE IF beh[i] = "skip" THEN AdvanceIgnoringSignal(n, i + 1, isAborted, beh)
    ELSE IF beh[i] \in SupportsThrows
         THEN [st |-> "raised", idx |-> i, err |-> ThrownMessage(beh[i])]
    ELSE [st |-> "await", idx |-> i, err |-> ""]

RECURSIVE Advance(_, _, _, _)
\* The synchronous stretch of run() from loop position i up to the next await:
\* beh[i] is the behaviour enricher i shows when it is reached.
Advance(n, i, isAborted, beh) ==
    IF i > n THEN [st |-> "done", idx |-> i, err |-> ""]
    ELSE IF isAborted THEN [st |-> "done", idx |-> i, err |-> ""]
    ELSE IF beh[i] = "skip" THEN Advance(n, i + 1, isAborted, beh)
    ELSE IF beh[i] \in SupportsThrows
         THEN [st |-> "raised", idx |-> i, err |-> ThrownMessage(beh[i])]
    ELSE [st |-> "await", idx |-> i, err |-> ""]

\* mutant: a rejected enrich() ends the run
AbortOnEnrichFailure(n, i, outcome, isAborted, beh) ==
    IF outcome = "fail" THEN [st |-> "raised", idx |-> i, err |-> "enrich failed"]
    ELSE Advance(n, i + 1, isAborted, beh)

\* the awaited enrich() of position i settles with outcome; a rejection is
\* caught and logged, and the loop goes on with i + 1
AfterEnrich(n, i, outcome, isAborted, beh) == Advance(n, i + 1, isAborted, beh)

(***************************************************************************)
(* Configuration                                                           *)
(***************************************************************************)
AllChains == {1, 2, 3, 4, 5}

\* ChainConfig.rpcs of each network, in configuration order
Rpcs(ch) ==
    CASE ch = 1 -> <<"A", "B", "C">>
      [] ch = 2 -> <<"D">>
      [] ch = 4 -> <<"E">>
      [] ch = 5 -> <<"F", "G">>
      [] OTHER -> <<>>

\* ResolverConfig.chains: the networks of the configuration, in order
ChainConfigs == {<<2, 1>>, <<1, 3>>}

\* RpcPoolSettings
CooldownBaseMs == 1
MaxRetriesBeforeDisable == 2

\* the exponent cap of the backoff
CooldownCapExponent == 6

\* the elapsed time reportSuccess is given for a probe
ProbeLatencyMs == 5

(***************************************************************************)
(* RpcPool                                                                 *)
(***************************************************************************)
RECURSIVE Pow2(_)
Pow2(n) == IF n = 0 THEN 1 ELSE 2 * Pow2(n - 1)

Min(a, b) == IF a <= b THEN a ELSE b

\* a health record; cooldownUntil, lastFailureAt and ewmaLatencyMs are 0 while
\* the field is undefined (0 is falsy in the code's tests as well)
NewHealth(url) ==
    [url |-> url, failures |-> 0, lastFailureAt |-> 0, cooldownUntil |-> 0,
     ewmaLatencyMs |-> 0, disabled |-> FALSE]

\* ensurePool: the pool of a network is built on first use
EnsurePool(pools, ch) ==
    IF pools[ch].built THEN pools[ch].rpcs
    ELSE [i \in 1..Len(Rpcs(ch)) |-> NewHealth(Rpcs(ch)[i])]

Usable(rpc, t) == ~rpc.disabled /\ (rpc.cooldownUntil = 0 \/ rpc.cooldownUntil <= t)

NotDisabled(rpc) == ~rpc.disabled

\* a pick without the fallback to endpoints that are cooling down
OnlyUsable(pool, t) == SelectSeq(pool, LAMBDA rpc : Usable(rpc, t))

\* pick's candidate list: the usable endpoints, or every endpoint that is not
\* disabled when none is usable
Candidates(pool, t) ==
    LET available == SelectSeq(pool, LAMBDA rpc : Usable(rpc, t))
    IN IF Len(available) > 0 THEN available ELSE SelectSeq(pool, NotDisabled)

\* a pick that never advances the round-robin index
PickWithoutAdvance(pools, rrIndex, rr, ch, t) ==
    LET pool == EnsurePool(pools, ch)
        cands == Candidates(pool, t)
    IN IF Len(pool) = 0 \/ Len(cands) = 0 THEN [url |-> "", index |-> rrIndex[ch]]
       ELSE IF ~rr THEN [url |-> cands[1].url, index |-> rrIndex[ch]]
       ELSE [url |-> cands[(rrIndex[ch] % Len(cands)) + 1].url, index |-> rrIndex[ch]]

\* pick(chain): the url chosen ("" for undefined) and the round-robin index after
Pick(pools, rrIndex, rr, ch, t) ==
    LET pool == EnsurePool(pools, ch)
        cands == Candidates(pool, t)
    IN IF Len(pool) = 0 \/ Len(cands) = 0 THEN [url |-> "", index |-> rrIndex[ch]]
       ELSE IF ~rr THEN [url |-> cands[1].url, index |-> rrIndex[ch]]
       ELSE [url |-> cands[(rrIndex[ch] % Len(cands)) + 1].url, index |-> rrIndex[ch] + 1]

\* a backoff without the cap on the exponent
UncappedCooldownMs(failures) == CooldownBaseMs * Pow2(failures)

\* cooldownMs(failures) = base * 2^min(failures, 6)
CooldownMs(failures) == CooldownBaseMs * Pow2(Min(failures, CooldownCapExponent))

\* a success that forgives the failures recorded so far
ForgivingSuccessOn(rpc, latencyMs) ==
    [rpc EXCEPT !.ewmaLatencyMs = latencyMs, !.failures = 0, !.disabled = FALSE]

SuccessOn(rpc, latencyMs) ==
    [rpc EXCEPT !.ewmaLatencyMs =
        IF rpc.ewmaLatencyMs # 0 THEN (rpc.ewmaLatencyMs * 4 + latencyMs) \div 5
        ELSE latencyMs]

FailureOn(rpc, t) ==
    [rpc EXCEPT !.failures = @ + 1,
                !.lastFailureAt = t,
                !.cooldownUntil = t + CooldownMs(rpc.failures + 1),
                !.disabled = @ \/ rpc.failures + 1 >= MaxRetriesBeforeDisable]

\* reportSuccess(chainId, url, latencyMs); an unknown (chain, url) is ignored
ReportSuccess(pools, ch, url, latencyMs) ==
    [pools EXCEPT ![ch].rpcs =
        [i \in DOMAIN @ |-> IF @[i].url = url THEN SuccessOn(@[i], latencyMs) ELSE @[i]]]

\* reportFailure(chainId, url); an unknown (chain, url) is ignored
ReportFailure(pools, ch, url, t) ==
    [pools EXCEPT ![ch].rpcs =
        [i \in DOMAIN @ |-> IF @[i].url = url THEN FailureOn(@[i], t) ELSE @[i]]]

(***************************************************************************)
(* AddressResolver                                                         *)
(***************************************************************************)
Calls == 1..MaxCalls

\* object identities of AddressResolution values: call c builds object c; the
\* object Preloaded is what CacheStore.init() read back from an earlier session
NoObject == 0
Preloaded == MaxCalls + 1
Objects == 1..Preloaded

\* perChain[chainId] is undefined
NoInfo == [exists |-> FALSE, rpc |-> "", marks |-> <<>>]

\* the fast pipeline and the background pipeline, as given to the constructors
FastEnrichers ==
    <<[id |-> "erc", priority |-> 20], [id |-> "basics", priority |-> 10]>>
BackgroundEnrichers == <<[id |-> "metadata", priority |-> 30]>>

\* new EnrichmentPipeline(enrichers).enrichers
NewPipeline(enrichers) == SortByPriority(enrichers)

Undefined == "undefined"

\* JavaScript truthiness of an optional string
Truthy(reason) == reason # Undefined /\ reason # ""

\* mutant: any cached value is served
NeverRefresh(resolution, chainIds) == FALSE

\* mutant: only a recorded failure makes a cached value stale
RefreshOnFailedOnly(resolution, chainIds) == Len(resolution.failed) > 0

\* shouldRefresh(resolution, chainIds)
ShouldRefresh(resolution, chainIds) ==
    \/ Len(resolution.failed) > 0
    \/ \E i \in DOMAIN chainIds : resolution.perChain[chainIds[i]] = NoInfo

\* rpcUrls: the preferred endpoint first, then the other configured endpoints
CandidateUrls(preferred, rpcs) ==
    IF preferred # "" THEN <<preferred>> \o SelectSeq(rpcs, LAMBDA url : url # preferred)
    ELSE rpcs

NoTask == [st |-> "none", preferred |-> "", urls |-> <<>>, i |-> 0, idx |-> 0,
           lastError |-> Undefined, probeOk |-> <<>>, probeErr |-> ""]

\* the per-network task right after its first synchronous stretch: the probe of
\* the first candidate is in flight, or the task has returned for want of one
LaunchTask(preferred, rpcs) ==
    LET urls == CandidateUrls(preferred, rpcs)
    IN [NoTask EXCEPT !.st = IF urls = <<>> THEN "failed" ELSE "probe",
                      !.preferred = preferred,
                      !.urls = urls,
                      !.i = IF urls = <<>> THEN 0 ELSE 1]

\* a catch block that keeps the first error of the task
KeepFirstError(task, message) ==
    LET kept == IF task.lastError = Undefined THEN message ELSE task.lastError
    IN IF task.i < Len(task.urls)
       THEN [task EXCEPT !.st = "probe", !.i = @ + 1, !.idx = 0, !.lastError = kept]
       ELSE [task EXCEPT !.st = "failed", !.idx = 0, !.lastError = kept]

\* the catch block's bookkeeping and the loop's next turn: the next candidate's
\* probe starts, or the task returns its failure
NextCandidate(task, message) ==
    IF task.i < Len(task.urls)
    THEN [task EXCEPT !.st = "probe", !.i = @ + 1, !.idx = 0, !.lastError = message]
    ELSE [task EXCEPT !.st = "failed", !.idx = 0, !.lastError = message]

\* what the task's promise fulfils with: reason stays undefined on success
ResultReason(task) ==
    IF task.st = "ok" THEN Undefined
    ELSE IF task.lastError = Undefined THEN "no rpc configured"
    ELSE task.lastError

\* mutant: every task lands in chainsSucceeded
AllSucceeded(chainIds, tasks) == chainIds

\* results.filter(result => !result.reason).map(result => result.chainId)
ChainsSucceeded(chainIds, tasks) ==
    SelectSeq(chainIds, LAMBDA ch : ~Truthy(ResultReason(tasks[ch])))

RECURSIVE FailedEntries(_, _)
\* results.filter(result => result.reason).map(...)
FailedEntries(chainIds, tasks) ==
    IF chainIds = <<>> THEN <<>>
    ELSE LET ch == Head(chainIds)
             rest == FailedEntries(Tail(chainIds), tasks)
         IN IF Truthy(ResultReason(tasks[ch]))
            THEN <<[chainId |-> ch, reason |-> ResultReason(tasks[ch])]>> \o rest
            ELSE rest

ChainsFailed(chainIds, tasks) == FailedEntries(chainIds, tasks)

FailedIds(resolution) == {resolution.failed[i].chainId : i \in DOMAIN resolution.failed}

\* an AddressResolution before the merge: only its perChain record exists
BlankObject ==
    [made |-> FALSE, attempted |-> <<>>, succeeded |-> <<>>, failed |-> <<>>,
     perChain |-> [ch \in AllChains |-> NoInfo]]

\* resolutions an earlier session may have left in the cache file: one that
\* covers networks 2 and 4, and one scanned when only network 2 was configured
PreloadedObjects ==
    { [made |-> TRUE, attempted |-> ids, succeeded |-> ids, failed |-> <<>>,
       perChain |-> [ch \in AllChains |->
            IF ch \in Range(ids) THEN [exists |-> TRUE, rpc |-> "", marks |-> <<>>]
            ELSE NoInfo]] : ids \in {<<2, 4>>, <<2>>} }

(***************************************************************************)
(* State                                                                   *)
(***************************************************************************)
VARIABLES
    pEnrichers,     \* the list given to the EnrichmentPipeline constructor
    pSorted,        \* this.enrichers
    pRun,           \* the run() in progress
    pAborted,       \* ctx.signal.aborted
    pInvoked,       \* ids whose enrich() was invoked, in order
    pMarks,         \* ids whose mutation is in ctx.info, in order
    pWarned,        \* ids logged through ctx.logger.warn
    pSeen           \* per invocation: the mutations in ctx.info when enrich() began

pipeVars == <<pEnrichers, pSorted, pRun, pAborted, pInvoked, pMarks, pWarned, pSeen>>

VARIABLES
    chains,         \* config.chains: the configured network ids, in order
    roundRobin,     \* settings.roundRobin
    hasBackground,  \* config.backgroundPipeline is set
    fastPipeline,   \* config.pipeline.enrichers
    backgroundPipeline, \* config.backgroundPipeline.enrichers
    now,            \* Date.now()
    pools,          \* RpcPool.pools: per network, built flag and health records
    rrIndex,        \* RpcPool.roundRobinIndex
    cache,          \* the cache entry of the address: an object, or NoObject
    objs,           \* the AddressResolution objects, by identity
    pc,             \* where each resolve() call stands
    aborted,        \* options.signal.aborted of each call
    task,           \* the per-network tasks of each call
    result,         \* the object each call fulfilled with
    bg,             \* the background pipeline runs of each call, per network
    bgpc,           \* where each call's runBackgroundEnrichment() stands
    reportLog,      \* per call and network: the reports made to the pool
    inFlightAtAbort \* per call: the networks still in flight when the signal fired

configVars == <<chains, roundRobin, hasBackground, fastPipeline, backgroundPipeline>>
poolVars == <<pools, rrIndex>>
callVars == <<pc, aborted, task, result, reportLog, inFlightAtAbort>>
bgVars == <<bg, bgpc>>
resolverVars == <<configVars, now, poolVars, cache, objs, callVars, bgVars>>

VARIABLES
    limiter,        \* the RateLimiter: config, tokens, lastRefill
    acq,            \* per caller: its acquire() call - [st, attempts, wake, took]
    sig             \* per caller: its AbortSignal has fired

limVars == <<limiter, acq, sig>>

VARIABLES
    cooldownUntil,  \* RoutescanClient.cooldownUntil (0 while undefined)
    req             \* per caller: its fetchJsonWithStatus call

clientVars == <<cooldownUntil, req>>

VARIABLES
    info,           \* the ChainAddressInfo of an EnrichmentContext
    stage           \* position of a run of the standard pipeline over info

classVars == <<info, stage>>

VARIABLES
    priceCache,     \* DefiLlamaClient.cache, the entry of the one key
    hcall,          \* per caller: its getPrice / getContractMetadata /
                    \* getContractCreation call
    priceRequests,  \* the instants at which getPrice called fetch
    remoteFailed    \* some response so far was not a success

httpVars == <<priceCache, hcall, priceRequests, remoteFailed>>

VARIABLES
    det             \* one ErcDetectorEnricher.enrich call: its position and its probe results

detVars == <<det>>

VARIABLES
    acct            \* one network of a resolve: its code and the enrichers that ran on it

acctVars == <<acct>>

VARIABLES
    settings,       \* the ChainSettings handed to resolveChains
    resolved        \* what resolveChains returned

selVars == <<settings, resolved>>

VARIABLES
    docs            \* the DocumentResolver: timers, queue, inflight, running

docVars == <<docs>>

\* the variables of the components modelled on their own
extraVars == <<httpVars, detVars, acctVars, selVars, docVars>>

VARIABLES
    picks,          \* pick() calls made on the pool under test
    rotation        \* per network: the picks made since pick's candidate list
                    \* last changed - [cands, start, urls]

\* what the observers of the pool operations record
coreAux == <<picks, rotation, limVars, clientVars, classVars>>

auxVars == <<coreAux, extraVars>>

vars == <<pipeVars, resolverVars, auxVars>>

NoRotation == [cands |-> <<>>, start |-> 0, urls |-> <<>>]

Callers == 1..NumCallers

NotCalled == [st |-> "idle", attempts |-> 0, wake |-> 0, took |-> 0]

\* new RateLimiter(config) at instant t
NewLimiter(maxRequests, perMs, t) ==
    [maxRequests |-> maxRequests, perMs |-> perMs, tokens |-> maxRequests, lastRefill |-> t]

LimiterIdle ==
    /\ limiter = NewLimiter(0, 0, 0)
    /\ acq = [c \in Callers |-> NotCalled]
    /\ sig = [c \in Callers |-> FALSE]

ClientIdle ==
    /\ cooldownUntil = 0
    /\ req = [c \in Callers |-> "idle"]

\* classification, token and the fields of contract are "" or FALSE while
\* undefined
NoClassification == [type |-> "", confidence |-> "", proxyType |-> ""]

NewInfo(isContract) ==
    [isContract |-> isContract, contract |-> FALSE, bytecodeHash |-> FALSE,
     kind |-> IF isContract THEN "Contract" ELSE "EOA", exists |-> TRUE,
     proxy |-> FALSE, classification |-> NoClassification, token |-> "",
     metadata |-> FALSE, deployment |-> FALSE, nativeBalanceWei |-> FALSE, nonce |-> <<>>]

ClassifyIdle ==
    /\ info = NewInfo(FALSE)
    /\ stage = 0

NoEntry == [has |-> FALSE, price |-> FALSE, fetchedAt |-> 0]

NoHttpCall == [st |-> "idle", op |-> "", ret |-> "", outcome |-> ""]

HttpIdle ==
    /\ priceCache = NoEntry
    /\ hcall = [c \in Callers |-> NoHttpCall]
    /\ priceRequests = <<>>
    /\ remoteFailed = FALSE

\* the eth_call probes of ErcDetectorEnricher.enrich, in the order of the calls
ProbeNames ==
    << "supports721", "supports1155", "name", "nameBytes32", "symbol", "symbolBytes32",
       "decimals", "totalSupply", "asset", "totalAssets" >>

NoDetection ==
    [pc |-> 0, done |-> FALSE, raised |-> FALSE, failed |-> {},
     res |-> [p \in Range(ProbeNames) |-> "pending"]]

DetectorIdle == det = NoDetection

NoAccount == [code |-> "", applied |-> <<>>, balanceRead |-> "", nonceRead |-> <<>>]

AccountIdle == acct = NoAccount

NoSettings == [mode |-> "", workspaceAllowlist |-> <<>>, userChains |-> <<>>]

NotResolved == [called |-> FALSE, chains |-> <<>>]

ChainsIdle == settings = NoSettings /\ resolved = NotResolved

\* maxConcurrent before the constructor ran
Unconstructed == 0 - 1

NoDocuments ==
    [maxConcurrent |-> Unconstructed, timers |-> {}, queue |-> <<>>, inflight |-> {},
     running |-> 0, active |-> {}, settled |-> {}, rejected |-> {}]

DocsIdle == docs = NoDocuments

ExtraIdle ==
    /\ HttpIdle
    /\ DetectorIdle
    /\ AccountIdle
    /\ ChainsIdle
    /\ DocsIdle

AuxIdle ==
    /\ ExtraIdle
    /\ LimiterIdle
    /\ ClientIdle
    /\ ClassifyIdle
    /\ picks = 0
    /\ rotation = [ch \in AllChains |-> NoRotation]

\* the resolver at rest (SpecPipeline leaves it there)
ResolverIdle ==
    /\ now = 0
    /\ pools = [ch \in AllChains |-> [built |-> FALSE, rpcs |-> <<>>]]
    /\ rrIndex = [ch \in AllChains |-> 0]
    /\ objs = [o \in Objects |-> BlankObject]
    /\ cache = NoObject
    /\ pc = [c \in Calls |-> "idle"]
    /\ aborted = [c \in Calls |-> FALSE]
    /\ task = [c \in Calls |-> [ch \in AllChains |-> NoTask]]
    /\ result = [c \in Calls |-> NoObject]
    /\ bg = [c \in Calls |-> [ch \in AllChains |-> RunReady]]
    /\ bgpc = [c \in Calls |-> "none"]
    /\ reportLog = [c \in Calls |-> [ch \in AllChains |-> <<>>]]
    /\ inFlightAtAbort = [c \in Calls |-> {}]

\* the pipeline under test at rest (Spec leaves it there)
PipelineIdle ==
    /\ pEnrichers = <<>>
    /\ pSorted = <<>>
    /\ pRun = RunReady
    /\ pAborted = FALSE
    /\ pInvoked = <<>>
    /\ pMarks = <<>>
    /\ pWarned = <<>>
    /\ pSeen = <<>>

(***************************************************************************)
(* SpecPipeline: one run() of a pipeline built from any bounded list       *)
(***************************************************************************)
EnricherIds == 1..NumEnrichers

EnricherLists ==
    { [i \in EnricherIds |-> [id |-> i, priority |-> pr[i], beh |-> bh[i]]] :
        pr \in [EnricherIds -> 1..MaxPriority], bh \in [EnricherIds -> Behaviours] }

BehOf(sorted) == [i \in 1..Len(sorted) |-> sorted[i].beh]

PipeInit ==
    /\ pEnrichers \in EnricherLists
    /\ pSorted = SortByPriority(pEnrichers)
    /\ pRun = RunReady
    /\ pAborted \in BOOLEAN
    /\ pInvoked = <<>>
    /\ pMarks = <<>>
    /\ pWarned = <<>>
    /\ pSeen = <<>>
    /\ chains = <<>> /\ roundRobin = FALSE /\ hasBackground = FALSE
    /\ fastPipeline = <<>> /\ backgroundPipeline = <<>>
    /\ ResolverIdle
    /\ AuxIdle

\* with the run parked at an await, record that enrich() of that enricher began
NoteInvoked(run, sorted, invoked) ==
    IF run.st = "await" THEN Append(invoked, sorted[run.idx].id) ELSE invoked

\* with the run parked at an await, record what enrich() finds in ctx.info: run
\* hands the one ctx object to every enricher
NoteSeen(run, marks, seen) ==
    IF run.st = "await" THEN Append(seen, marks) ELSE seen

\* run(ctx) is called: runs up to the first await
PipelineRun ==
    /\ pRun.st = "ready"
    /\ pRun' = Advance(Len(pSorted), 1, pAborted, BehOf(pSorted))
    /\ pInvoked' = NoteInvoked(pRun', pSorted, pInvoked)
    /\ pSeen' = NoteSeen(pRun', pMarks, pSeen)
    /\ UNCHANGED <<pEnrichers, pSorted, pAborted, pMarks, pWarned, resolverVars, auxVars>>

\* the pending enrich() settles; run() continues to the next await
EnrichSettle ==
    /\ pRun.st = "await"
    /\ LET e == pSorted[pRun.idx]
       IN /\ pMarks' = IF e.beh = "ok" THEN Append(pMarks, e.id) ELSE pMarks
          /\ pWarned' = IF e.beh = "fail" THEN Append(pWarned, e.id) ELSE pWarned
          /\ pRun' = AfterEnrich(Len(pSorted), pRun.idx, e.beh, pAborted, BehOf(pSorted))
    /\ pInvoked' = NoteInvoked(pRun', pSorted, pInvoked)
    /\ pSeen' = NoteSeen(pRun', pMarks', pSeen)
    /\ UNCHANGED <<pEnrichers, pSorted, pAborted, resolverVars, auxVars>>

\* the caller's AbortSignal fires
PipelineAbort ==
    /\ ~pAborted
    /\ pRun.st \in {"ready", "await"}
    /\ pAborted' = TRUE
    /\ UNCHANGED <<pEnrichers, pSorted, pRun, pInvoked, pMarks, pWarned, pSeen, resolverVars, auxVars>>

PipeNext == PipelineRun \/ EnrichSettle \/ PipelineAbort

SpecPipeline == PipeInit /\ [][PipeNext]_vars

(***************************************************************************)
(* Spec: resolve() calls on one address                                    *)
(***************************************************************************)
\* the resolver's state before the first resolve() of the address: `old` is
\* the cache entry an earlier session left behind (BlankObject for none)
ResolverStart(old) ==
    /\ cache = IF old = BlankObject THEN NoObject ELSE Preloaded
    /\ objs = [o \in Objects |-> IF o = Preloaded THEN old ELSE BlankObject]
    /\ pc = [c \in Calls |-> "idle"]
    /\ aborted = [c \in Calls |-> FALSE]
    /\ task = [c \in Calls |-> [ch \in AllChains |-> NoTask]]
    /\ result = [c \in Calls |-> NoObject]
    /\ bg = [c \in Calls |-> [ch \in AllChains |-> RunReady]]
    /\ bgpc = [c \in Calls |-> "none"]
    /\ reportLog = [c \in Calls |-> [ch \in AllChains |-> <<>>]]
    /\ inFlightAtAbort = [c \in Calls |-> {}]

NoPools == [ch \in AllChains |-> [built |-> FALSE, rpcs |-> <<>>]]

\* Spec: up to MaxCalls resolve() calls of the address, one after the other
\* (the background pass of a call runs on while later calls resolve), with no
\* fast enricher and at most one background enricher
Init ==
    /\ PipelineIdle
    /\ AuxIdle
    /\ chains = <<4, 2>>
    /\ roundRobin = TRUE
    /\ hasBackground \in BOOLEAN
    /\ fastPipeline = NewPipeline(<<>>)
    /\ backgroundPipeline = NewPipeline(IF hasBackground THEN BackgroundEnrichers ELSE <<>>)
    /\ pools = NoPools
    /\ rrIndex = [ch \in AllChains |-> 0]
    /\ now = 0
    /\ \E old \in PreloadedObjects \cup {BlankObject} : ResolverStart(old)

Configured == Range(chains)

FastLen == Len(fastPipeline)
BackgroundLen == Len(backgroundPipeline)

\* what each enricher of a pipeline of n enrichers does if this run reaches it
BehaviourChoices(n) == [1..n -> Behaviours]

\* where run() can stand at its next await (or at its end) when it resumes at
\* loop position i, over everything the enrichers from i on may do
RunsFrom(n, i, isAborted) ==
    {Advance(n, i, isAborted, beh) : beh \in BehaviourChoices(n)}

\* the same for run() resuming after the enrich() of position i has settled
RunsAfterEnrich(n, i, outcome, isAborted) ==
    {AfterEnrich(n, i, outcome, isAborted, beh) : beh \in BehaviourChoices(n)}

\* a background task catches a rejected run() and logs it: only the fact that
\* the task has settled remains
Caught(run) == IF run.st = "raised" THEN [run EXCEPT !.st = "logged", !.err = ""] ELSE run

\* resolve(address) is called.  A fresh cache entry is returned as it is; otherwise every network's
\* task runs up to its first await: pick, then the probe of the first
\* candidate endpoint.
BeginResolve(c) ==
    /\ pc[c] = "idle"
    /\ IF cache # NoObject /\ ~ShouldRefresh(objs[cache], chains)
       THEN /\ pc' = [pc EXCEPT ![c] = "returned"]
            /\ result' = [result EXCEPT ![c] = cache]
            /\ UNCHANGED <<poolVars, task>>
       ELSE LET picked == [ch \in AllChains |-> Pick(pools, rrIndex, roundRobin, ch, now)]
            IN /\ pc' = [pc EXCEPT ![c] = "scanning"]
               /\ pools' = [ch \in AllChains |->
                     IF ch \in Configured
                     THEN [built |-> TRUE, rpcs |-> EnsurePool(pools, ch)]
                     ELSE pools[ch]]
               /\ rrIndex' = [ch \in AllChains |->
                     IF ch \in Configured THEN picked[ch].index ELSE rrIndex[ch]]
               /\ task' = [task EXCEPT ![c] = [ch \in AllChains |->
                     IF ch \in Configured THEN LaunchTask(picked[ch].url, Rpcs(ch))
                     ELSE NoTask]]
               /\ UNCHANGED result
    /\ UNCHANGED <<pipeVars, auxVars, configVars, now, cache, objs, aborted, reportLog,
                   inFlightAtAbort, bgVars>>

\* a caller that calls resolve() again only when it has the outcome of its
\* earlier calls
StartResolve(c) ==
    /\ \A d \in Calls : d < c => pc[d] \in {"returned", "rejected"}
    /\ BeginResolve(c)

\* the url whose probe or pipeline the task is waiting on
CurrentUrl(t) == t.urls[t.i]

\* the task of call c for network ch after the fast pipeline's run() came to
\* run: parked at an enricher, finished, or rejected into resolve()'s catch
AfterRun(t, run) ==
    CASE run.st = "await" -> [t EXCEPT !.st = "enrich", !.idx = run.idx]
      [] run.st = "done" -> [t EXCEPT !.st = "ok", !.idx = run.idx]
      [] OTHER -> NextCandidate(t, run.err)

\* the reports resolve() makes when run() has come to run: reportFailure for
\* the endpoint when run() rejected
ReportAfterRun(ps, ch, url, run, t) ==
    IF run.st = "raised" THEN ReportFailure(ps, ch, url, t) ELSE ps

LogAfterRun(log, url, run) ==
    IF run.st = "raised" THEN Append(log, <<url, "failure">>) ELSE log

\* rpc.getCode settles with a code: reportSuccess, the info record is stored
\* in perChain, and pipeline.run starts
ProbeSucceeds(c, ch, run) ==
    LET t == task[c][ch]
        url == CurrentUrl(t)
        t1 == [t EXCEPT !.probeOk = Append(@, TRUE)]
    IN /\ pools' = ReportAfterRun(ReportSuccess(pools, ch, url, ProbeLatencyMs),
                                  ch, url, run, now)
       /\ reportLog' = [reportLog EXCEPT ![c][ch] =
                            LogAfterRun(Append(@, <<url, "success">>), url, run)]
       /\ objs' = [objs EXCEPT ![c].perChain[ch] =
                            [exists |-> TRUE, rpc |-> url, marks |-> <<>>]]
       /\ task' = [task EXCEPT ![c][ch] = AfterRun(t1, run)]

\* rpc.getCode rejects: reportFailure, then the next candidate endpoint
ProbeFails(c, ch, message) ==
    LET t == task[c][ch]
        url == CurrentUrl(t)
        t1 == [t EXCEPT !.probeOk = Append(@, FALSE), !.probeErr = message]
    IN /\ pools' = ReportFailure(pools, ch, url, now)
       /\ reportLog' = [reportLog EXCEPT ![c][ch] = Append(@, <<url, "failure">>)]
       /\ task' = [task EXCEPT ![c][ch] = NextCandidate(t1, message)]
       /\ UNCHANGED objs

\* error.message of what getCode rejects with while the signal has not fired:
\* fetch rejecting, and a response that is not ok
ProbeErrors == {"fetch failed", "RPC responded with 500"}

\* the probe in flight settles, its rejections drawn from errors; a fired
\* signal makes fetch reject
ProbeSettleWith(c, ch, errors) ==
    /\ pc[c] = "scanning"
    /\ task[c][ch].st = "probe"
    /\ IF aborted[c]
       THEN ProbeFails(c, ch, "This operation was aborted")
       ELSE \/ \E run \in RunsFrom(FastLen, 1, aborted[c]) : ProbeSucceeds(c, ch, run)
            \/ \E message \in errors : ProbeFails(c, ch, message)
    /\ UNCHANGED <<pipeVars, auxVars, configVars, now, rrIndex, cache, pc, aborted, result,
                   inFlightAtAbort, bgVars>>

ProbeSettle(c, ch) == ProbeSettleWith(c, ch, {"fetch failed"})

\* the fast pipeline's pending enrich() settles and run() goes on
FastEnrichSettle(c, ch) ==
    /\ pc[c] = "scanning"
    /\ task[c][ch].st = "enrich"
    /\ \E outcome \in {"ok", "fail"} :
       \E run \in RunsAfterEnrich(FastLen, task[c][ch].idx, outcome, aborted[c]) :
          LET t == task[c][ch]
              url == CurrentUrl(t)
          IN /\ objs' = [objs EXCEPT ![c].perChain[ch].marks =
                            IF outcome = "ok" THEN Append(@, fastPipeline[t.idx].id)
                            ELSE @]
             /\ pools' = ReportAfterRun(pools, ch, url, run, now)
             /\ reportLog' = [reportLog EXCEPT ![c][ch] = LogAfterRun(@, url, run)]
             /\ task' = [task EXCEPT ![c][ch] = AfterRun(t, run)]
    /\ UNCHANGED <<pipeVars, auxVars, configVars, now, rrIndex, cache, pc, aborted, result,
                   inFlightAtAbort, bgVars>>

Settled(t) == t.st \in {"ok", "failed"}

\* Promise.all(tasks) has fulfilled: the resolution is built and cache.set
\* stores it (CacheStore.set puts the entry before it awaits persist())
Merge(c) ==
    /\ pc[c] = "scanning"
    /\ \A ch \in Configured : Settled(task[c][ch])
    /\ objs' = [objs EXCEPT ![c] =
            [made |-> TRUE,
             attempted |-> chains,
             succeeded |-> ChainsSucceeded(chains, task[c]),
             failed |-> ChainsFailed(chains, task[c]),
             perChain |-> @.perChain]]
    /\ cache' = c
    /\ pc' = [pc EXCEPT ![c] = "persisting"]
    /\ UNCHANGED <<pipeVars, auxVars, configVars, now, poolVars, aborted, task, result,
                   reportLog, inFlightAtAbort, bgVars>>

\* mutant: a background run for every configured network
BackgroundEverywhere(c) == Configured

\* runBackgroundEnrichment's tasks: one run of the background pipeline per
\* perChain record whose network is configured and has an rpc client
BackgroundNetworks(c) ==
    {ch \in AllChains : objs[c].perChain[ch] # NoInfo /\ ch \in Configured
                        /\ objs[c].perChain[ch].rpc # ""}

\* mutant: resolve() awaits runBackgroundEnrichment() before it returns
AwaitBackground(c) == IF hasBackground THEN "background" ELSE "returned"

\* line 118-121: the background pass is started with void and resolve returns
AfterSpawn(c) == "returned"

\* the first cache.set settles.  Fulfilled: the background pass is spawned (it
\* runs up to its first awaits) and resolve() returns.  Rejected: resolve()
\* rejects.
PersistSettle(c) ==
    /\ pc[c] = "persisting"
    /\ \/ /\ pc' = [pc EXCEPT ![c] = AfterSpawn(c)]
          /\ result' = [result EXCEPT ![c] = IF AfterSpawn(c) = "returned" THEN c ELSE @]
          /\ IF hasBackground
             THEN \E runs \in [BackgroundNetworks(c) -> RunsFrom(BackgroundLen, 1, FALSE)] :
                    /\ bg' = [bg EXCEPT ![c] = [ch \in AllChains |->
                            IF ch \in BackgroundNetworks(c) THEN Caught(runs[ch])
                            ELSE RunReady]]
                    /\ bgpc' = [bgpc EXCEPT ![c] = "running"]
             ELSE UNCHANGED bgVars
       \/ /\ pc' = [pc EXCEPT ![c] = "rejected"]
          /\ UNCHANGED <<result, bgVars>>
    /\ UNCHANGED <<pipeVars, auxVars, configVars, now, poolVars, cache, objs, aborted, task,
                   reportLog, inFlightAtAbort>>

\* a background enricher's enrich() settles; the run goes on (no signal is
\* passed to the background runs)
BackgroundEnrichSettle(c, ch) ==
    /\ bgpc[c] = "running"
    /\ bg[c][ch].st = "await"
    /\ \E outcome \in {"ok", "fail"} :
       \E run \in RunsAfterEnrich(BackgroundLen, bg[c][ch].idx, outcome, FALSE) :
          /\ objs' = [objs EXCEPT ![c].perChain[ch].marks =
                        IF outcome = "ok"
                        THEN Append(@, backgroundPipeline[bg[c][ch].idx].id)
                        ELSE @]
          /\ bg' = [bg EXCEPT ![c][ch] = Caught(run)]
    /\ UNCHANGED <<pipeVars, auxVars, configVars, now, poolVars, cache, callVars, bgpc>>

\* Promise.allSettled(tasks) has fulfilled (a rejected run was caught and
\* logged by its task): the second cache.set stores the same object
BackgroundStore(c) ==
    /\ bgpc[c] = "running"
    /\ \A ch \in AllChains : bg[c][ch].st # "await"
    /\ cache' = c
    /\ bgpc' = [bgpc EXCEPT ![c] = "persisting"]
    /\ bg' = [bg EXCEPT ![c] = [ch \in AllChains |-> RunReady]]
    /\ UNCHANGED <<pipeVars, auxVars, configVars, now, poolVars, objs, callVars>>

\* the second cache.set settles; nothing awaits or catches the promise of
\* runBackgroundEnrichment(), so a rejection is an unhandled rejection
BackgroundPersistSettle(c) ==
    /\ bgpc[c] = "persisting"
    /\ \E outcome \in {"done", "unhandled"} :
          bgpc' = [bgpc EXCEPT ![c] = outcome]
    /\ UNCHANGED <<pipeVars, auxVars, configVars, now, poolVars, cache, objs, callVars, bg>>

\* the caller's AbortSignal fires while resolve() is scanning
Abort(c) ==
    /\ pc[c] = "scanning"
    /\ ~aborted[c]
    /\ aborted' = [aborted EXCEPT ![c] = TRUE]
    /\ inFlightAtAbort' = [inFlightAtAbort EXCEPT ![c] =
            {ch \in Configured : ~Settled(task[c][ch])}]
    /\ UNCHANGED <<pipeVars, auxVars, configVars, now, poolVars, cache, objs, pc, task, result,
                   reportLog, bgVars>>

\* the cache entry expires (CacheStore.get drops it) or the cache is cleared
CacheExpire ==
    /\ cache # NoObject
    /\ cache' = NoObject
    /\ UNCHANGED <<pipeVars, auxVars, configVars, now, poolVars, objs, callVars, bgVars>>

Next ==
    \/ \E c \in Calls : StartResolve(c)
    \/ \E c \in Calls, ch \in AllChains : ProbeSettle(c, ch)
    \/ \E c \in Calls : Merge(c)
    \/ \E c \in Calls : PersistSettle(c)
    \/ \E c \in Calls, ch \in AllChains : BackgroundEnrichSettle(c, ch)
    \/ \E c \in Calls : BackgroundStore(c)
    \/ \E c \in Calls : BackgroundPersistSettle(c)
    \/ CacheExpire

Spec == Init /\ [][Next]_vars

(***************************************************************************)
(* SpecScan: the synchronous pass of one resolve() call in full detail -   *)
(* three endpoints, two fast enrichers, cancellation - started at any time *)
(* from the pool states that earlier traffic (resolves of other addresses) *)
(* can leave.  No background pipeline is configured.                       *)
(***************************************************************************)
RECURSIVE FailTimes(_, _, _, _)
\* pools after k reportFailure calls for (ch, url) at time 0
FailTimes(ps, ch, url, k) ==
    IF k = 0 THEN ps ELSE FailTimes(ReportFailure(ps, ch, url, 0), ch, url, k - 1)

BuiltPools == [ch \in AllChains |-> [built |-> TRUE, rpcs |-> EnsurePool(NoPools, ch)]]

AllDisabled(ch) ==
    LET a == FailTimes(BuiltPools, ch, "A", MaxRetriesBeforeDisable)
        b == FailTimes(a, ch, "B", MaxRetriesBeforeDisable)
    IN FailTimes(b, ch, "C", MaxRetriesBeforeDisable)

\* pools earlier traffic can leave: untouched; endpoint A failed once and is
\* cooling down; A disabled; A, B and C disabled
ScanPools ==
    { NoPools,
      FailTimes(BuiltPools, 1, "A", 1),
      FailTimes(BuiltPools, 1, "A", MaxRetriesBeforeDisable),
      AllDisabled(1) }

\* the round-robin counters earlier traffic can leave
ScanIndexes == {[ch \in AllChains |-> IF ch = 1 THEN k ELSE 0] : k \in 0..1}

ScanInit ==
    /\ PipelineIdle
    /\ AuxIdle
    /\ chains \in ChainConfigs
    /\ roundRobin = TRUE
    /\ hasBackground = FALSE
    /\ fastPipeline = NewPipeline(FastEnrichers)
    /\ backgroundPipeline = NewPipeline(<<>>)
    /\ pools \in ScanPools
    /\ rrIndex \in ScanIndexes
    /\ now \in 0..MaxTime
    /\ ResolverStart(BlankObject)

ScanNext ==
    \/ StartResolve(1)
    \/ \E ch \in AllChains : ProbeSettleWith(1, ch, ProbeErrors)
    \/ \E ch \in AllChains : FastEnrichSettle(1, ch)
    \/ Merge(1)
    \/ PersistSettle(1)
    \/ Abort(1)

SpecScan == ScanInit /\ [][ScanNext]_vars

(***************************************************************************)
(* SpecPass: one resolve() call as in SpecScan, with a background pipeline *)
(* of one enricher configured, from the start of the scan to the end of    *)
(* runBackgroundEnrichment().                                              *)
(***************************************************************************)
PassInit ==
    /\ PipelineIdle
    /\ AuxIdle
    /\ chains \in ChainConfigs
    /\ roundRobin = TRUE
    /\ hasBackground = TRUE
    /\ fastPipeline = NewPipeline(FastEnrichers)
    /\ backgroundPipeline = NewPipeline(BackgroundEnrichers)
    /\ pools \in ScanPools
    /\ rrIndex \in ScanIndexes
    /\ now = 0
    /\ ResolverStart(BlankObject)

PassNext ==
    \/ StartResolve(1)
    \/ \E ch \in AllChains : ProbeSettleWith(1, ch, ProbeErrors)
    \/ \E ch \in AllChains : FastEnrichSettle(1, ch)
    \/ Merge(1)
    \/ PersistSettle(1)
    \/ Abort(1)
    \/ \E ch \in AllChains : BackgroundEnrichSettle(1, ch)
    \/ BackgroundStore(1)
    \/ BackgroundPersistSettle(1)

SpecPass == PassInit /\ [][PassNext]_vars

(***************************************************************************)
(* SpecOverlap: resolve() calls of one address made by callers that do not *)
(* wait for each other (the hover provider and the DocumentResolver both   *)
(* hold the resolver), calls numbered in the order they are made; no       *)
(* enrichers.                                                              *)
(***************************************************************************)
OverlapInit ==
    /\ PipelineIdle
    /\ AuxIdle
    /\ chains = <<4, 2>>
    /\ roundRobin = TRUE
    /\ hasBackground = FALSE
    /\ fastPipeline = NewPipeline(<<>>)
    /\ backgroundPipeline = NewPipeline(<<>>)
    /\ pools = NoPools
    /\ rrIndex = [ch \in AllChains |-> 0]
    /\ now = 0
    /\ ResolverStart(BlankObject)

\* a caller calls resolve() whatever the state of the earlier calls
ResolveNow(c) ==
    /\ \A d \in Calls : d < c => pc[d] # "idle"
    /\ BeginResolve(c)

OverlapNext ==
    \/ \E c \in Calls : ResolveNow(c)
    \/ \E c \in Calls, ch \in AllChains : ProbeSettle(c, ch)
    \/ \E c \in Calls : Merge(c)
    \/ \E c \in Calls : PersistSettle(c)

SpecOverlap == OverlapInit /\ [][OverlapNext]_vars

(***************************************************************************)
(* SpecPool: RpcPool on its own - any interleaving of pick on networks 5   *)
(* (F, G), 2 (D) and 3 (no endpoint) with reportSuccess and reportFailure  *)
(* for the endpoints of network 5, the clock advancing.                    *)
(***************************************************************************)
UrlsOf(health) == [k \in DOMAIN health |-> health[k].url]

PoolChains == {5, 2, 3}

\* the network whose endpoints receive reports in SpecPool
Reported == 5

\* the record of a pick that returned url from the candidate list cands
Rotated(rot, cands, index, url) ==
    IF rot.cands = cands /\ rot.urls # <<>>
    THEN [rot EXCEPT !.urls = Append(@, url)]
    ELSE [cands |-> cands, start |-> index, urls |-> <<url>>]

\* the record is dropped when the candidate list of the network has changed
Kept(rot, ps, ch, t) ==
    IF rot.cands = UrlsOf(Candidates(ps[ch].rpcs, t)) THEN rot ELSE NoRotation

PoolInit ==
    /\ PipelineIdle
    /\ AuxIdle
    /\ chains = <<5, 2, 3>>
    /\ roundRobin \in BOOLEAN
    /\ hasBackground = FALSE
    /\ fastPipeline = <<>> /\ backgroundPipeline = <<>>
    /\ pools = NoPools
    /\ rrIndex = [ch \in AllChains |-> 0]
    /\ now = 0
    /\ ResolverStart(BlankObject)

\* pool.pick(chain)
PoolPick(ch) ==
    /\ picks < MaxPicks
    /\ LET picked == Pick(pools, rrIndex, roundRobin, ch, now)
           cands == UrlsOf(Candidates(EnsurePool(pools, ch), now))
       IN /\ pools' = [pools EXCEPT ![ch] = [built |-> TRUE, rpcs |-> EnsurePool(pools, ch)]]
          /\ rrIndex' = [rrIndex EXCEPT ![ch] = picked.index]
          /\ rotation' = [rotation EXCEPT ![ch] =
                             Rotated(@, cands, rrIndex[ch], picked.url)]
    /\ picks' = picks + 1
    /\ UNCHANGED <<pipeVars, extraVars, limVars, clientVars, classVars, configVars, now, cache, objs, callVars, bgVars>>

\* pool.reportSuccess(chainId, url, latencyMs)
PoolReportSuccess(ch, url) ==
    /\ pools' = ReportSuccess(pools, ch, url, ProbeLatencyMs)
    /\ rotation' = [c \in AllChains |-> Kept(rotation[c], pools', c, now)]
    /\ UNCHANGED <<pipeVars, extraVars, limVars, clientVars, classVars, picks, configVars, now, rrIndex, cache, objs, callVars, bgVars>>

\* pool.reportFailure(chainId, url), explored up to cap failures per endpoint
PoolReportFailure(ch, url, cap) ==
    /\ \A k \in DOMAIN pools[ch].rpcs :
          pools[ch].rpcs[k].url = url => pools[ch].rpcs[k].failures < cap
    /\ pools' = ReportFailure(pools, ch, url, now)
    /\ rotation' = [c \in AllChains |-> Kept(rotation[c], pools', c, now)]
    /\ UNCHANGED <<pipeVars, extraVars, limVars, clientVars, classVars, picks, configVars, now, rrIndex, cache, objs, callVars, bgVars>>

\* time passes
Tick ==
    /\ now < MaxTime
    /\ now' = now + 1
    /\ rotation' = [c \in AllChains |-> Kept(rotation[c], pools, c, now')]
    /\ UNCHANGED <<pipeVars, extraVars, limVars, clientVars, classVars, picks, configVars, poolVars, cache, objs, callVars, bgVars>>

PoolNext ==
    \/ \E ch \in PoolChains : PoolPick(ch)
    \/ \E url \in Range(Rpcs(Reported)) : PoolReportSuccess(Reported, url)
    \/ \E url \in Range(Rpcs(Reported)) :
          PoolReportFailure(Reported, url, MaxRetriesBeforeDisable + 1)
    \/ Tick

SpecPool == PoolInit /\ [][PoolNext]_vars

\* SpecBackoff: repeated failures of the one endpoint of network 2
BackoffNext ==
    \/ PoolPick(2)
    \/ PoolReportSuccess(2, "D")
    \/ PoolReportFailure(2, "D", MaxFailures)
    \/ Tick

SpecBackoff == PoolInit /\ [][BackoffNext]_vars

(***************************************************************************)
(* SpecLimiter: one RateLimiter shared by NumCallers acquire() calls, each *)
(* with its own AbortSignal, while the clock advances.                     *)
(***************************************************************************)
\* RateLimitConfig.perMs
PerMs == 10

\* RateLimitConfig.maxRequests
MaxRequestsChoices == {0, 1, 2}

\* the shortest wait of nextTokenDelay
MinDelayMs == 10

Max(a, b) == IF a >= b THEN a ELSE b

\* refill(now)
Refill(lim, t) ==
    LET elapsed     == t - lim.lastRefill
        tokensToAdd == (elapsed * lim.maxRequests) \div lim.perMs
    IN IF elapsed <= 0 \/ tokensToAdd <= 0 THEN lim
       ELSE [lim EXCEPT !.tokens = Min(lim.maxRequests, @ + tokensToAdd),
                        !.lastRefill = t]

\* nextTokenDelay(): max(10, ceil(1.05 * perMs / maxRequests))
NextTokenDelay(lim) ==
    IF lim.maxRequests <= 0 THEN lim.perMs
    ELSE Max(MinDelayMs,
             (105 * lim.perMs + 100 * lim.maxRequests - 1) \div (100 * lim.maxRequests))

\* an acquire whose loop has no iteration cap
AttemptUncapped(lim, a, fired, t) ==
    IF fired
    THEN [lim |-> lim, acq |-> [a EXCEPT !.st = "rejected"]]
    ELSE LET filled == Refill(lim, t)
         IN IF filled.tokens > 0
            THEN [lim |-> [filled EXCEPT !.tokens = @ - 1],
                  acq |-> [a EXCEPT !.st = "resolved", !.wake = 0, !.took = 1]]
            ELSE [lim |-> filled,
                  acq |-> [a EXCEPT !.st = "waiting", !.wake = t + NextTokenDelay(filled)]]

\* a pass of acquire's loop that does not look at the signal
AttemptIgnoringSignal(lim, a, fired, t) ==
    IF a.attempts >= AttemptLimit
    THEN [lim |-> lim, acq |-> [a EXCEPT !.st = "resolved", !.wake = 0]]
    ELSE LET filled == Refill(lim, t)
         IN IF filled.tokens > 0
            THEN [lim |-> [filled EXCEPT !.tokens = @ - 1],
                  acq |-> [a EXCEPT !.st = "resolved", !.wake = 0, !.took = 1]]
            ELSE [lim |-> filled,
                  acq |-> [a EXCEPT !.st = "waiting", !.wake = t + NextTokenDelay(filled)]]

\* acquire from the test of its while loop up to its next await, return or
\* throw: a is the call, fired its signal's aborted flag, t the clock
Attempt(lim, a, fired, t) ==
    IF a.attempts >= AttemptLimit
    THEN [lim |-> lim, acq |-> [a EXCEPT !.st = "resolved", !.wake = 0]]
    ELSE IF fired
    THEN [lim |-> lim, acq |-> [a EXCEPT !.st = "rejected"]]
    ELSE LET filled == Refill(lim, t)
         IN IF filled.tokens > 0
            THEN [lim |-> [filled EXCEPT !.tokens = @ - 1],
                  acq |-> [a EXCEPT !.st = "resolved", !.wake = 0, !.took = 1]]
            ELSE [lim |-> filled,
                  acq |-> [a EXCEPT !.st = "waiting", !.wake = t + NextTokenDelay(filled)]]

LimiterInit ==
    /\ PipelineIdle
    /\ ResolverIdle
    /\ chains = <<>> /\ roundRobin = FALSE /\ hasBackground = FALSE
    /\ fastPipeline = <<>> /\ backgroundPipeline = <<>>
    /\ picks = 0
    /\ rotation = [ch \in AllChains |-> NoRotation]
    /\ \E m \in MaxRequestsChoices : limiter = NewLimiter(m, PerMs, 0)
    /\ acq = [c \in Callers |-> NotCalled]
    /\ sig = [c \in Callers |-> FALSE]
    /\ ClientIdle
    /\ ClassifyIdle
    /\ ExtraIdle

\* limiter.acquire(signal) up to its first await, return or throw
Acquire(c) ==
    /\ acq[c].st = "idle"
    /\ LET pass == Attempt(limiter, [acq[c] EXCEPT !.st = "running"], sig[c], now)
       IN /\ limiter' = pass.lim
          /\ acq' = [acq EXCEPT ![c] = pass.acq]
    /\ UNCHANGED <<pipeVars, extraVars, resolverVars, picks, rotation, clientVars, classVars, sig>>

\* the timer of delay() fires: attempts += 1 and the loop goes round
TimerFires(c) ==
    /\ acq[c].st = "waiting"
    /\ acq[c].wake <= now
    /\ LET pass == Attempt(limiter, [acq[c] EXCEPT !.attempts = @ + 1], sig[c], now)
       IN /\ limiter' = pass.lim
          /\ acq' = [acq EXCEPT ![c] = pass.acq]
    /\ UNCHANGED <<pipeVars, extraVars, resolverVars, picks, rotation, clientVars, classVars, sig>>

\* the signal of caller c fires; a pending delay() rejects with "aborted"
SignalFires(c) ==
    /\ ~sig[c]
    /\ sig' = [sig EXCEPT ![c] = TRUE]
    /\ acq' = [acq EXCEPT ![c] = IF @.st = "waiting" THEN [@ EXCEPT !.st = "rejected"] ELSE @]
    /\ UNCHANGED <<pipeVars, extraVars, resolverVars, picks, rotation, clientVars, classVars, limiter>>

\* the clock is read every ClockStep milliseconds and at every deadline
ClockStep == 2

\* time passes: by a step, or up to a timer or the end of the cooldown
Deadlines == {acq[c].wake : c \in {k \in Callers : acq[k].st = "waiting"}} \cup {cooldownUntil}

ClockAdvance ==
    /\ now < MaxClock
    /\ \E t \in {Min(now + ClockStep, MaxClock)} \cup {d \in Deadlines : d > now /\ d <= MaxClock} :
          now' = t
    /\ UNCHANGED <<pipeVars, auxVars, configVars, poolVars, cache, objs, callVars, bgVars>>

LimiterNext ==
    \/ \E c \in Callers : Acquire(c)
    \/ \E c \in Callers : TimerFires(c)
    \/ \E c \in Callers : SignalFires(c)
    \/ ClockAdvance

SpecLimiter == LimiterInit /\ [][LimiterNext]_vars

(***************************************************************************)
(* SpecClient: one RoutescanClient, NumCallers concurrent calls of         *)
(* fetchJsonWithStatus (fetchEtherscan has the same steps), none with a    *)
(* signal, the server answering each request with any status.              *)
(***************************************************************************)
\* RoutescanClientConfig.cooldownMs
ClientCooldownMs == 12

\* RoutescanClientConfig.rateLimit.maxRequests
ClientMaxRequests == {1, 2}

\* the statuses a request ends with; 0 is fetch throwing
Statuses == {0, 200, 429, 500}

\* isCoolingDown()
IsCoolingDown == cooldownUntil # 0 /\ now < cooldownUntil

\* the call after acquire() has got as far as pass: fetch is issued when
\* acquire has resolved
AfterAcquire(pass) ==
    CASE pass.acq.st = "resolved" -> "fetching"
      [] pass.acq.st = "waiting"  -> "acquiring"
      [] OTHER                    -> "failed"

ClientInit ==
    /\ PipelineIdle
    /\ ResolverIdle
    /\ chains = <<>> /\ roundRobin = FALSE /\ hasBackground = FALSE
    /\ fastPipeline = <<>> /\ backgroundPipeline = <<>>
    /\ picks = 0
    /\ rotation = [ch \in AllChains |-> NoRotation]
    /\ \E m \in ClientMaxRequests : limiter = NewLimiter(m, PerMs, 0)
    /\ acq = [c \in Callers |-> NotCalled]
    /\ sig = [c \in Callers |-> FALSE]
    /\ ClientIdle
    /\ ClassifyIdle
    /\ ExtraIdle

\* fetchJsonWithStatus(url, endpoint) up to its first await or return
ClientCall(c) ==
    /\ req[c] = "idle"
    /\ IF IsCoolingDown
       THEN /\ req' = [req EXCEPT ![c] = "shortCircuited"]
            /\ UNCHANGED <<limiter, acq>>
       ELSE LET pass == Attempt(limiter, [acq[c] EXCEPT !.st = "running"], sig[c], now)
            IN /\ limiter' = pass.lim
               /\ acq' = [acq EXCEPT ![c] = pass.acq]
               /\ req' = [req EXCEPT ![c] = AfterAcquire(pass)]
    /\ UNCHANGED <<pipeVars, extraVars, resolverVars, picks, rotation, classVars, sig, cooldownUntil>>

\* the timer of the call's delay() fires inside limiter.acquire
ClientTimer(c) ==
    /\ req[c] = "acquiring"
    /\ acq[c].wake <= now
    /\ LET pass == Attempt(limiter, [acq[c] EXCEPT !.attempts = @ + 1], sig[c], now)
       IN /\ limiter' = pass.lim
          /\ acq' = [acq EXCEPT ![c] = pass.acq]
          /\ req' = [req EXCEPT ![c] = AfterAcquire(pass)]
    /\ UNCHANGED <<pipeVars, extraVars, resolverVars, picks, rotation, classVars, sig, cooldownUntil>>

\* the request of the call ends with status; 429 starts the cooldown
ClientResponse(c, status) ==
    /\ req[c] = "fetching"
    /\ req' = [req EXCEPT ![c] = "done"]
    /\ cooldownUntil' = IF status = 429 THEN now + ClientCooldownMs ELSE cooldownUntil
    /\ UNCHANGED <<pipeVars, extraVars, resolverVars, picks, rotation, classVars, limVars>>

ClientNext ==
    \/ \E c \in Callers : ClientCall(c)
    \/ \E c \in Callers : ClientTimer(c)
    \/ \E c \in Callers : \E status \in Statuses : ClientResponse(c, status)
    \/ ClockAdvance

SpecClient == ClientInit /\ [][ClientNext]_vars

(***************************************************************************)
(* SpecClassify: one run of the pipeline of the four contract enrichers    *)
(* over a fresh info, every enricher seeing any answer from its probes.    *)
(***************************************************************************)
\* the enrichers in an order the constructor may be given
StandardEnrichers ==
    << [id |-> "erc-detector", priority |-> 20],
       [id |-> "routescan-metadata", priority |-> 35],
       [id |-> "contract-basics", priority |-> 10],
       [id |-> "explorer-metadata", priority |-> 30] >>

StandardPipeline == SortByPriority(StandardEnrichers)

\* an updateClassification without the test for Proxy
OverwriteClassification(i, type, confidence) ==
    [i EXCEPT !.contract = TRUE,
              !.classification = [type |-> type, confidence |-> confidence, proxyType |-> ""]]

\* updateClassification(ctx, type, confidence)
UpdateClassification(i, type, confidence) ==
    IF i.classification.type = "Proxy" THEN [i EXCEPT !.contract = TRUE]
    ELSE [i EXCEPT !.contract = TRUE,
                   !.classification = [type |-> type, confidence |-> confidence, proxyType |-> ""]]

\* ContractBasicsEnricher.enrich; at is how far it gets: "getCode" and
\* "getStorageAt" are the rpc call that rejects, "end" is a fulfilled enrich
BasicsAt == {"getCode", "getStorageAt", "end"}

ContractBasicsEnrich(i, at, hasCode, isProxy) ==
    IF at = "getCode" THEN i
    ELSE LET based == [i EXCEPT !.contract = TRUE, !.bytecodeHash = @ \/ hasCode]
         IN IF at = "getStorageAt" \/ ~isProxy THEN based
            ELSE [based EXCEPT !.proxy = TRUE,
                               !.classification = [type |-> "Proxy", confidence |-> "0.7",
                                                   proxyType |-> "EIP1967"]]

\* what the probes of ErcDetectorEnricher answer
Probes ==
    [supports721 : BOOLEAN, supports1155 : BOOLEAN, erc20 : BOOLEAN, vault : BOOLEAN]

\* ErcDetectorEnricher.enrich
ErcDetectorEnrich(i, probe) ==
    IF probe.supports1155
    THEN [UpdateClassification(i, "ERC1155", "0.9") EXCEPT !.token = "ERC1155"]
    ELSE IF probe.supports721
    THEN [UpdateClassification(i, "ERC721", "0.9") EXCEPT !.token = "ERC721"]
    ELSE LET detectedStandard ==
                 IF probe.vault THEN "ERC4626" ELSE IF probe.erc20 THEN "ERC20" ELSE ""
         IN IF detectedStandard # ""
            THEN [UpdateClassification(i, detectedStandard, "0.8")
                     EXCEPT !.token = detectedStandard]
            ELSE i

\* ExplorerMetadataEnricher.enrich; thrown: getContractMetadata rejects
ExplorerMetadataEnrich(i, thrown, hasMetadata, hasCreation) ==
    IF thrown THEN i
    ELSE [i EXCEPT !.contract = TRUE,
                   !.metadata = @ \/ hasMetadata,
                   !.deployment = @ \/ hasCreation]

\* RoutescanMetadataEnricher.enrich; thrown: a client call rejects
RoutescanMetadataEnrich(i, thrown, hasBalance, hasMetadata, hasCreation) ==
    IF thrown THEN i
    ELSE LET funded == [i EXCEPT !.nativeBalanceWei = @ \/ hasBalance]
         IN IF ~i.isContract THEN funded
            ELSE [funded EXCEPT !.contract = TRUE,
                                !.metadata = @ \/ hasMetadata,
                                !.deployment = @ \/ hasCreation]

\* supports(ctx) of the enricher id
Supports(id, i) == id = "routescan-metadata" \/ i.isContract

\* the enricher the run has reached
Reached(id) ==
    /\ stage \in 1..Len(StandardPipeline)
    /\ StandardPipeline[stage].id = id

ClassifyInit ==
    /\ PipelineIdle
    /\ ResolverIdle
    /\ chains = <<>> /\ roundRobin = FALSE /\ hasBackground = FALSE
    /\ fastPipeline = <<>> /\ backgroundPipeline = <<>>
    /\ picks = 0
    /\ rotation = [ch \in AllChains |-> NoRotation]
    /\ LimiterIdle
    /\ ClientIdle
    /\ ExtraIdle
    /\ \E isContract \in BOOLEAN : info = NewInfo(isContract)
    /\ stage = 1

\* supports(ctx) is false: continue
SkipUnsupported ==
    /\ stage \in 1..Len(StandardPipeline)
    /\ ~Supports(StandardPipeline[stage].id, info)
    /\ stage' = stage + 1
    /\ UNCHANGED <<pipeVars, extraVars, resolverVars, picks, rotation, limVars, clientVars, info>>

RunContractBasics ==
    /\ Reached("contract-basics") /\ Supports("contract-basics", info)
    /\ \E at \in BasicsAt : \E hasCode, isProxy \in BOOLEAN :
          info' = ContractBasicsEnrich(info, at, hasCode, isProxy)
    /\ stage' = stage + 1
    /\ UNCHANGED <<pipeVars, extraVars, resolverVars, picks, rotation, limVars, clientVars>>

RunErcDetector ==
    /\ Reached("erc-detector") /\ Supports("erc-detector", info)
    /\ \E probe \in Probes : info' = ErcDetectorEnrich(info, probe)
    /\ stage' = stage + 1
    /\ UNCHANGED <<pipeVars, extraVars, resolverVars, picks, rotation, limVars, clientVars>>

RunExplorerMetadata ==
    /\ Reached("explorer-metadata") /\ Supports("explorer-metadata", info)
    /\ \E thrown, hasMetadata, hasCreation \in BOOLEAN :
          info' = ExplorerMetadataEnrich(info, thrown, hasMetadata, hasCreation)
    /\ stage' = stage + 1
    /\ UNCHANGED <<pipeVars, extraVars, resolverVars, picks, rotation, limVars, clientVars>>

RunRoutescanMetadata ==
    /\ Reached("routescan-metadata")
    /\ \E thrown, hasBalance, hasMetadata, hasCreation \in BOOLEAN :
          info' = RoutescanMetadataEnrich(info, thrown, hasBalance, hasMetadata, hasCreation)
    /\ stage' = stage + 1
    /\ UNCHANGED <<pipeVars, extraVars, resolverVars, picks, rotation, limVars, clientVars>>

ClassifyNext ==
    \/ SkipUnsupported
    \/ RunContractBasics
    \/ RunErcDetector
    \/ RunExplorerMetadata
    \/ RunRoutescanMetadata

SpecClassify == ClassifyInit /\ [][ClassifyNext]_vars

(***************************************************************************)
(* SpecHttp: the price client (DefiLlamaClient, one key) and the explorer  *)
(* client (ExplorerClient, configured with an api key and an api base      *)
(* url): NumCallers calls that may overlap, the remote answering each      *)
(* request in any way, the clock advancing.                                *)
(***************************************************************************)
\* DefiLlamaClient.ttlMs
PriceTtlMs == 6

HttpOps == {"getPrice", "getContractMetadata", "getContractCreation"}

\* how a request ends: a 2xx response with the data asked for, a 2xx response
\* without it, another status, fetch rejecting, a body that json() rejects
Outcomes == {"ok", "okEmpty", "status", "transport", "unparsable"}

\* the cached entry is still fresh at t
Fresh(entry, t) == entry.has /\ t - entry.fetchedAt < PriceTtlMs

\* what getPrice returns for the response outcome: [ret, cache]
PriceAfter(entry, outcome, t) ==
    CASE outcome \in {"transport", "unparsable"} ->
            [st |-> "threw", ret |-> "", cache |-> entry]
      [] outcome = "status" ->
            [st |-> "returned", ret |-> IF entry.has THEN "stale" ELSE "absent",
             cache |-> entry]
      [] OTHER ->
            [st |-> "returned", ret |-> "entry",
             cache |-> [has |-> TRUE, price |-> outcome = "ok", fetchedAt |-> t]]

\* what getContractMetadata / getContractCreation do for the response outcome
ExplorerAfter(outcome) ==
    CASE outcome \in {"transport", "unparsable"} -> [st |-> "threw", ret |-> ""]
      [] outcome \in {"status", "okEmpty"} -> [st |-> "returned", ret |-> "absent"]
      [] OTHER -> [st |-> "returned", ret |-> "value"]

HttpInit ==
    /\ PipelineIdle
    /\ ResolverIdle
    /\ chains = <<>> /\ roundRobin = FALSE /\ hasBackground = FALSE
    /\ fastPipeline = <<>> /\ backgroundPipeline = <<>>
    /\ picks = 0
    /\ rotation = [ch \in AllChains |-> NoRotation]
    /\ LimiterIdle
    /\ ClientIdle
    /\ ClassifyIdle
    /\ ExtraIdle

\* getPrice up to its first await or return
GetPrice(c) ==
    /\ hcall[c].st = "idle"
    /\ IF Fresh(priceCache, now)
       THEN /\ hcall' = [hcall EXCEPT ![c] = [st |-> "returned", op |-> "getPrice",
                                              ret |-> "cached", outcome |-> ""]]
            /\ UNCHANGED priceRequests
       ELSE /\ hcall' = [hcall EXCEPT ![c] = [st |-> "fetching", op |-> "getPrice",
                                              ret |-> "", outcome |-> ""]]
            /\ priceRequests' = Append(priceRequests, now)
    /\ UNCHANGED <<pipeVars, resolverVars, coreAux, detVars, acctVars, selVars, docVars, priceCache, remoteFailed>>

\* getContractMetadata / getContractCreation up to the await of fetch
ExplorerCall(c, op) ==
    /\ hcall[c].st = "idle"
    /\ hcall' = [hcall EXCEPT ![c] = [st |-> "fetching", op |-> op, ret |-> "",
                                      outcome |-> ""]]
    /\ UNCHANGED <<pipeVars, resolverVars, coreAux, detVars, acctVars, selVars, docVars, priceCache, priceRequests, remoteFailed>>

\* the request of call c ends with outcome
HttpResponse(c, outcome) ==
    /\ hcall[c].st = "fetching"
    /\ remoteFailed' = (remoteFailed \/ outcome \notin {"ok", "okEmpty"})
    /\ IF hcall[c].op = "getPrice"
       THEN LET after == PriceAfter(priceCache, outcome, now)
            IN /\ priceCache' = after.cache
               /\ hcall' = [hcall EXCEPT ![c].st = after.st, ![c].ret = after.ret,
                                         ![c].outcome = outcome]
       ELSE LET after == ExplorerAfter(outcome)
            IN /\ hcall' = [hcall EXCEPT ![c].st = after.st, ![c].ret = after.ret,
                                         ![c].outcome = outcome]
               /\ UNCHANGED priceCache
    /\ UNCHANGED <<pipeVars, resolverVars, coreAux, detVars, acctVars, selVars, docVars, priceRequests>>

HttpNext ==
    \/ \E c \in Callers : GetPrice(c)
    \/ \E c \in Callers : \E op \in HttpOps \ {"getPrice"} : ExplorerCall(c, op)
    \/ \E c \in Callers : \E outcome \in Outcomes : HttpResponse(c, outcome)
    \/ ClockAdvance

SpecHttp == HttpInit /\ [][HttpNext]_vars

(***************************************************************************)
(* C1 - fault isolation of EnrichmentPipeline.run: when only enrich() calls *)
(* fail (every supports() returns a boolean, the signal does not fire),     *)
(* run() returns without raising, it has invoked enrich() on exactly the    *)
(* enrichers whose supports() is true, one after the other in ascending     *)
(* priority, each failure was logged, and the mutation of every enricher    *)
(* that did not fail is in the info.                                        *)
(***************************************************************************)
IdsWith(S) == {e.id : e \in {x \in Range(pEnrichers) : x.beh \in S}}

PriorityOf(id) == pEnrichers[id].priority

Ascending(ids) ==
    \A i, j \in DOMAIN ids : i < j => PriorityOf(ids[i]) <= PriorityOf(ids[j])

NoRepeat(ids) == \A i, j \in DOMAIN ids : i # j => ids[i] # ids[j]

OnlyEnrichFails == IdsWith(SupportsThrows) = {} /\ ~pAborted

C1_FaultIsolation ==
    OnlyEnrichFails =>
        /\ pRun.st # "raised"
        /\ Ascending(pInvoked) /\ NoRepeat(pInvoked)
        /\ pRun.st = "done" =>
              /\ Range(pInvoked) = IdsWith({"ok", "fail"})
              /\ Range(pMarks) = IdsWith({"ok"})
              /\ Range(pWarned) = IdsWith({"fail"})
              /\ Ascending(pMarks) /\ NoRepeat(pMarks)

\* three enrichers given out of priority order, the middle one (by priority)
\* failed, the other two ran and left their mutations
C1_Witness ==
    /\ OnlyEnrichFails
    /\ pRun.st = "done"
    /\ Len(pInvoked) = 3
    /\ pEnrichers[pInvoked[2]].beh = "fail"
    /\ pMarks = <<pInvoked[1], pInvoked[3]>>
    /\ pInvoked[1] > pInvoked[3]

(***************************************************************************)
(* C2 - cache freshness rule: a resolve() call returns the cached object   *)
(* itself, launching no probe and touching no pool record, exactly when a  *)
(* cached resolution exists, its chainsFailed list is empty and every      *)
(* configured network id has a perChain entry; otherwise it starts a scan  *)
(* that will produce a new object.                                         *)
(***************************************************************************)
CachedIsFresh ==
    /\ cache # NoObject
    /\ objs[cache].failed = <<>>
    /\ \A ch \in Configured : objs[cache].perChain[ch].exists

ServedFromCache(c) ==
    /\ pc'[c] = "returned"
    /\ result'[c] = cache
    /\ task'[c] = task[c]
    /\ UNCHANGED <<pools, rrIndex, cache, objs>>

ScanStarted(c) ==
    /\ pc'[c] = "scanning"
    /\ result'[c] = NoObject
    /\ \E ch \in Configured : task'[c][ch].st = "probe"

C2_CacheFreshness ==
    [][\A c \in Calls :
          (pc[c] = "idle" /\ pc'[c] # "idle") =>
              IF CachedIsFresh THEN ServedFromCache(c) ELSE ScanStarted(c)]_vars

\* two successive resolves: the first scanned and nothing failed, the second
\* returned the first one's object without a probe
C2_Witness ==
    /\ pc[1] = "returned" /\ result[1] = 1
    /\ objs[1].made /\ objs[1].failed = <<>>
    /\ pc[2] = "returned" /\ result[2] = 1
    /\ \A ch \in AllChains : task[2][ch] = NoTask

(***************************************************************************)
(* C3 - stale refresh: a resolution with a failed network is written to    *)
(* the cache and handed to the caller like any other; the next resolve()   *)
(* that finds it cached starts a probe for every configured network, the   *)
(* ones that had succeeded included, and its merge replaces the cache      *)
(* entry with the new object.                                              *)
(***************************************************************************)
CachedHasFailure == cache # NoObject /\ objs[cache].failed # <<>>

C3_StaleRefresh ==
    [][\A c \in Calls :
          /\ (pc[c] = "idle" /\ pc'[c] # "idle" /\ CachedHasFailure) =>
                /\ pc'[c] = "scanning"
                /\ \A ch \in Configured :
                      task'[c][ch].st = "probe" /\ task'[c][ch].i = 1
          /\ (pc[c] = "scanning" /\ pc'[c] # "scanning") =>
                /\ pc'[c] = "persisting"
                /\ cache' = c /\ cache' # cache
                /\ objs'[c].made
          /\ (pc[c] = "persisting" /\ pc'[c] = "returned") => result'[c] = c]_vars

\* the first resolve returned an object in which network 4 failed and
\* network 2 succeeded; the second one probed network 2 again and its object
\* has replaced the first in the cache
C3_Witness ==
    /\ pc[1] = "returned" /\ result[1] = 1
    /\ FailedIds(objs[1]) = {4} /\ objs[1].succeeded = <<2>>
    /\ pc[2] = "persisting" /\ cache = 2
    /\ task[2][2].probeOk # <<>> /\ task[2][4].probeOk # <<>>

(***************************************************************************)
(* C4 - failover ordering: for each network the candidates are the         *)
(* endpoint pick returned followed by the other configured endpoints in    *)
(* configuration order, no endpoint is probed twice, no probe follows a    *)
(* probe that succeeded, and a network fails only after the probe of every *)
(* candidate has failed.                                                   *)
(***************************************************************************)
OthersInOrder(ch, preferred) == SelectSeq(Rpcs(ch), LAMBDA url : url # preferred)

C4_FailoverOrdering ==
    \A ch \in Configured :
       LET t == task[1][ch]
       IN t.st # "none" =>
            /\ t.urls = IF t.preferred = "" THEN Rpcs(ch)
                        ELSE <<t.preferred>> \o OthersInOrder(ch, t.preferred)
            /\ NoRepeat(t.urls)
            /\ Len(t.probeOk) <= Len(t.urls)
            /\ \A k \in DOMAIN t.probeOk :
                  t.probeOk[k] => k = Len(t.probeOk) /\ t.st \in {"enrich", "ok"}
            /\ t.st = "failed" =>
                  /\ Len(t.probeOk) = Len(t.urls)
                  /\ \A k \in DOMAIN t.probeOk : ~t.probeOk[k]

(***************************************************************************)
(* C5 - failover health accounting: when pick prefers A for network 1 (the *)
(* order is A, B, C), the probe of A fails and the probe of B succeeds,    *)
(* the network                                                             *)
(* is in chainsSucceeded, the pool was told one failure of A and one       *)
(* success of B and nothing else, and the health record of C is untouched. *)
(***************************************************************************)
C5_HealthAccounting ==
    LET t == task[1][1]
    IN (/\ objs[1].made
        /\ t.preferred = "A"
        /\ t.urls = <<"A", "B", "C">>
        /\ Len(t.probeOk) >= 2
        /\ ~t.probeOk[1]
        /\ t.probeOk[2]) =>
           /\ 1 \in Range(objs[1].succeeded)
           /\ reportLog[1][1] = << <<"A", "failure">>, <<"B", "success">> >>
           /\ pools[1].rpcs[3] = NewHealth("C")

(***************************************************************************)
(* C6 - scan summary: every resolution resolve() has built (the only ones  *)
(* it caches or returns) has chainsAttempted equal to the configured       *)
(* network ids in configuration order and lists every configured network   *)
(* in exactly one of chainsSucceeded and chainsFailed, once; it is built   *)
(* only when every per-network task has settled.                           *)
(***************************************************************************)
SummaryOf(o) ==
    /\ o.attempted = chains
    /\ \A ch \in Configured : (ch \in Range(o.succeeded)) # (ch \in FailedIds(o))
    /\ Range(o.succeeded) \cup FailedIds(o) \subseteq Configured
    /\ NoRepeat(o.succeeded)
    /\ NoRepeat(o.failed)

C7_FailuresListed ==
    objs[1].made =>
        \A ch \in Configured :
           task[1][ch].st = "failed" =>
               \E i \in DOMAIN objs[1].failed :
                  objs[1].failed[i].chainId = ch /\ objs[1].failed[i].reason # ""

(***************************************************************************)
(* C8 - the caller is not delayed by the background pass: whenever the     *)
(* background pass of a call exists - an enricher pending, the second      *)
(* cache write pending, or over - that call has already handed its         *)
(* resolution to the caller.                                               *)
(***************************************************************************)
C8_CallerNotDelayed ==
    \A c \in Calls :
       /\ bgpc[c] # "none" => pc[c] = "returned" /\ result[c] = c
       /\ (\E ch \in AllChains : bg[c][ch].st = "await") => pc[c] = "returned"

\* the caller has its resolution while a background enricher is still pending
C8_Witness ==
    \E c \in Calls, ch \in AllChains :
       /\ pc[c] = "returned" /\ result[c] = c
       /\ bgpc[c] = "running"
       /\ bg[c][ch].st = "await"

(***************************************************************************)
(* C9 - background failures stay contained: no failure of the detached     *)
(* background pass leaves a rejected promise that nothing handles.         *)
(***************************************************************************)
C9_BackgroundContained == \A c \in Calls : bgpc[c] # "unhandled"

(***************************************************************************)
(* C10 - cancellation yields only complete records: in a call in which no  *)
(* supports() raised, a network that was still in flight when the signal   *)
(* fired has no perChain record in the resolution and is not in            *)
(* chainsSucceeded.                                                        *)
(***************************************************************************)
NothingRaised ==
    \A ch \in Configured :
       \A k \in DOMAIN task[1][ch].probeOk :
          task[1][ch].probeOk[k] => task[1][ch].st \in {"enrich", "ok"}

C10_CompleteRecordsOnly ==
    (objs[1].made /\ NothingRaised) =>
        \A ch \in inFlightAtAbort[1] :
           /\ objs[1].perChain[ch] = NoInfo
           /\ ch \notin Range(objs[1].succeeded)

(***************************************************************************)
(* C11 - cancellation is not retried: once the signal of a resolve() call  *)
(* has fired, no task of that call moves on to its next candidate endpoint *)
(* and the pool is told no failure on account of the cancelled call.       *)
(***************************************************************************)
FailuresOf(ps, ch) == [k \in DOMAIN ps[ch].rpcs |-> ps[ch].rpcs[k].failures]

C11_CancelNotRetried ==
    [][aborted[1] =>
          \A ch \in Configured :
             /\ task'[1][ch].i = task[1][ch].i
             /\ task[1][ch].st = "probe" => FailuresOf(pools', ch) = FailuresOf(pools, ch)]_vars

(***************************************************************************)
(* C12 - pick's selection rule: a pick returns an endpoint that is not     *)
(* disabled and whose cooldown has elapsed whenever the network has one;   *)
(* otherwise an endpoint that is not disabled (still cooling down)         *)
(* whenever it has one; it returns none exactly when every endpoint of the *)
(* network is disabled or none is configured; it never returns a disabled  *)
(* endpoint.                                                               *)
(***************************************************************************)
Last(seq) == seq[Len(seq)]

\* the step is a pick() on network ch
PickedOn(ch) == picks' = picks + 1 /\ rotation'[ch] # rotation[ch]

\* the url that pick() has just returned for network ch ("" for none)
Returned(ch) == Last(rotation'[ch].urls)

Elapsed(pool, t) ==
    {k \in DOMAIN pool : ~pool[k].disabled /\ pool[k].cooldownUntil <= t}

Enabled(pool) == {k \in DOMAIN pool : ~pool[k].disabled}

EndpointD == pools[2].rpcs[1]

\* the cooldown the last reportFailure has set on a record
CooldownSet(rpc) == rpc.cooldownUntil - rpc.lastFailureAt

Doubled(k) == IF k >= 6 THEN 64 ELSE Pow2(k)

C14_CooldownGrowth ==
    [][pools[2].built /\ EndpointD'.failures = EndpointD.failures + 1 =>
          /\ CooldownSet(EndpointD') = CooldownBaseMs * Doubled(EndpointD'.failures)
          /\ EndpointD'.lastFailureAt = now
          /\ CooldownSet(EndpointD') <= CooldownBaseMs * 64
          /\ EndpointD.failures >= 1 /\ CooldownSet(EndpointD) < CooldownBaseMs * 64
                => CooldownSet(EndpointD') > CooldownSet(EndpointD)]_vars

\* the endpoint has failed more than six times and its cooldown is at the cap
C14_Witness ==
    /\ pools[2].built
    /\ EndpointD.failures > CooldownCapExponent
    /\ CooldownSet(EndpointD) = CooldownBaseMs * 64

(***************************************************************************)
(* C15 - round-robin rotation: with roundRobin enabled and a candidate     *)
(* list of n endpoints that does not change, consecutive picks for one     *)
(* network return the candidates in pool order starting from the index of  *)
(* the network modulo n, so that any n consecutive picks return each       *)
(* candidate exactly once; a pick on one network leaves the index of every *)
(* other network unchanged; with roundRobin disabled every pick returns    *)
(* the first candidate.                                                    *)
(***************************************************************************)
\* the picks recorded since the candidate list last changed follow the rotation
InRotation(rot) ==
    LET n == Len(rot.cands)
    IN n > 0 =>
         /\ \A j \in 1..Len(rot.urls) :
               rot.urls[j] = rot.cands[((rot.start + j - 1) % n) + 1]
         /\ \A j \in 1..(Len(rot.urls) - n + 1) :
               {rot.urls[i] : i \in j..(j + n - 1)} = Range(rot.cands)

AlwaysFirst(rot) ==
    Len(rot.cands) > 0 => \A j \in 1..Len(rot.urls) : rot.urls[j] = rot.cands[1]

C15_RoundRobin ==
    [][\A ch \in PoolChains :
          /\ roundRobin => InRotation(rotation'[ch])
          /\ ~roundRobin => AlwaysFirst(rotation'[ch])
          /\ PickedOn(ch) =>
                \A other \in AllChains \ {ch} : rrIndex'[other] = rrIndex[other]]_vars

\* three picks in a row over the two candidates of network 5, the rotation
\* having started from an odd index, after a pick on another network
C15_Witness ==
    /\ roundRobin
    /\ Len(rotation[Reported].cands) = 2
    /\ Len(rotation[Reported].urls) >= 3
    /\ rotation[Reported].start % 2 = 1

(***************************************************************************)
(* C16 - admission by acquire: every acquire() call that has completed     *)
(* successfully has consumed one token that was available (the count is    *)
(* never below zero), so that a call for which no token becomes available  *)
(* does not complete successfully.                                         *)
(***************************************************************************)
C16_TokenPerAdmission ==
    /\ limiter.tokens >= 0
    /\ \A c \in Callers : acq[c].st = "resolved" => acq[c].took = 1

(***************************************************************************)
(* C17 - cancellation of acquire: a call made with a signal that has       *)
(* already fired, and a call whose signal fires while it waits for a       *)
(* token, fails with the "aborted" error and consumes no token.            *)
(***************************************************************************)
C17_AcquireCancelled ==
    [][\A c \in Callers :
          /\ acq[c].st = "idle" /\ acq'[c].st # "idle" /\ sig[c] =>
                acq'[c].st = "rejected" /\ limiter' = limiter
          /\ acq[c].st = "waiting" /\ sig'[c] =>
                acq'[c].st = "rejected" /\ limiter' = limiter
          /\ acq'[c].st = "rejected" => acq'[c].took = 0 /\ sig'[c]]_vars

\* one call was rejected while it waited for a token, another at its entry
C17_Witness ==
    \E c, d \in Callers :
       /\ acq[c].st = "rejected" /\ acq[c].wake > 0
       /\ acq[d].st = "rejected" /\ acq[d].wake = 0

(***************************************************************************)
(* C18 - circuit breaker: from the moment a call of the client observes a  *)
(* 429 response until cooldownUntil has passed, no call of the client      *)
(* issues a network request, calls that were waiting in the rate limiter   *)
(* when the 429 was observed included.                                     *)
(***************************************************************************)
C18_NoRequestInCooldown ==
    [][\A c \in Callers :
          req[c] # "fetching" /\ req'[c] = "fetching" => ~IsCoolingDown]_vars

(***************************************************************************)
(* C19 - proxy precedence: once contract-basics has set the classification *)
(* to Proxy, no later enricher of the run changes it; whatever the probes  *)
(* of the standard detector answer, the type stays Proxy and the           *)
(* confidence stays 0.7.                                                   *)
(***************************************************************************)
C19_ProxyPrecedence ==
    [][info.classification.type = "Proxy" =>
          /\ info'.classification = info.classification
          /\ info'.classification.confidence = "0.7"]_vars

\* the standard detector has found a token standard on a contract classified
\* as Proxy, and the run has ended
C19_Witness ==
    /\ stage > Len(StandardPipeline)
    /\ info.classification.type = "Proxy"
    /\ info.token # ""

(***************************************************************************)
(* C20 - pipeline ordering: whatever the order of the list given to the    *)
(* constructor, run() invokes the supported enrichers in ascending         *)
(* priority order, one at a time (an enricher starts only after every      *)
(* enricher invoked before it has settled), and each enricher finds in the *)
(* context every mutation made by the enrichers that ran before it.        *)
(***************************************************************************)
\* the enrichers invoked before the k-th invocation
Earlier(k) == {pInvoked[j] : j \in 1..(k - 1)}

SettledIds == Range(pMarks) \cup Range(pWarned)

C20_PipelineOrdering ==
    /\ Ascending(pInvoked) /\ NoRepeat(pInvoked)
    /\ Len(pSeen) = Len(pInvoked)
    /\ \A k \in DOMAIN pInvoked :
          /\ pEnrichers[pInvoked[k]].beh \in {"ok", "fail"}
          /\ Earlier(k) \subseteq SettledIds
          /\ Range(pSeen[k]) = Earlier(k) \cap IdsWith({"ok"})
          \* no supported enricher of lower priority was passed over
          /\ \A e \in Range(pEnrichers) :
                e.beh \in {"ok", "fail"} /\ e.priority < PriorityOf(pInvoked[k])
                   => e.id \in Earlier(k)
    /\ pRun.st = "done" /\ ~pAborted => Range(pInvoked) = IdsWith({"ok", "fail"})

\* three enrichers, the first given with a higher priority number than the
\* third, have all run: the third was invoked first, and the last one invoked
\* found the mutations of the two before it
C20_Witness ==
    /\ pRun.st = "done"
    /\ Len(pInvoked) = 3
    /\ PriorityOf(pEnrichers[1].id) > PriorityOf(pEnrichers[3].id)
    /\ pInvoked[1] = 3
    /\ Len(pSeen[3]) = 2

(***************************************************************************)
(* C21 - pipeline cancellation: run() tests the signal before each         *)
(* enricher; once the signal is set, no further supports() or enrich() is  *)
(* invoked in the run, and run() returns without raising.                  *)
(***************************************************************************)
\* the run takes a step (it starts, or its pending enrich() settles)
RunSteps == pRun' # pRun

C21_PipelineCancellation ==
    [][pAborted /\ RunSteps =>
          /\ pRun'.st = "done"
          /\ pInvoked' = pInvoked
          \* the loop stopped at the position it had reached
          /\ pRun'.idx = pRun.idx + 1]_vars

\* the signal fired while the first enricher was pending; the run returned
\* although the supports() of an enricher further on would have raised
C21_Witness ==
    /\ pAborted
    /\ pRun.st = "done"
    /\ Len(pInvoked) = 1
    /\ pRun.idx <= Len(pSorted)
    /\ \E k \in pRun.idx..Len(pSorted) : pSorted[k].beh \in SupportsThrows

(***************************************************************************)
(* C22 - unreachable network: when every candidate endpoint of a network   *)
(* has failed its probe, whatever error each raised, or the network has no *)
(* endpoint configured, the resolution lists the network in                *)
(* chainsAttempted and in chainsFailed and not in chainsSucceeded; its     *)
(* reason is the error of the last endpoint tried, or "no rpc configured"  *)
(* when none was tried.                                                    *)
(***************************************************************************)
\* every candidate of the network was probed and every probe failed
AllProbesFailed(t) ==
    /\ t.st = "failed"
    /\ Len(t.probeOk) = Len(t.urls)
    /\ \A k \in DOMAIN t.probeOk : ~t.probeOk[k]

ReasonsOf(o, ch) == {o.failed[i].reason : i \in {k \in DOMAIN o.failed : o.failed[k].chainId = ch}}

C22_UnreachableNetwork ==
    objs[1].made =>
        \A ch \in Configured :
           AllProbesFailed(task[1][ch]) =>
              /\ ch \in Range(objs[1].attempted)
              /\ ch \notin Range(objs[1].succeeded)
              /\ IF task[1][ch].urls = <<>>
                 THEN ReasonsOf(objs[1], ch) = {"no rpc configured"}
                 ELSE /\ ReasonsOf(objs[1], ch) = {task[1][ch].probeErr}
                      /\ task[1][ch].probeErr
                            \in ProbeErrors \cup {"This operation was aborted"}

\* network 1: the three endpoints failed, the first by a rejected fetch and the
\* last with an HTTP status; network 3 has no endpoint
C22_Witness ==
    /\ chains = <<1, 3>>
    /\ objs[1].made
    /\ AllProbesFailed(task[1][1]) /\ Len(task[1][1].urls) = 3
    /\ ~aborted[1]
    /\ ReasonsOf(objs[1], 1) = {"RPC responded with 500"}
    /\ ReasonsOf(objs[1], 3) = {"no rpc configured"}

(***************************************************************************)
(* SpecDetector: one ErcDetectorEnricher.enrich call on a contract, probe  *)
(* by probe, the node answering each eth_call in any way.  The call starts *)
(* where the standard pipeline reaches the detector: after contract-basics.*)
(***************************************************************************)
\* how an eth_call ends: ctx.rpc.call rejects (revert, transport error), it
\* returns no data, the data does not decode, it decodes to the empty value of
\* its type (false, "", 0), it decodes to another value
Responses == {"rejects", "noData", "malformed", "empty", "value"}

\* a safeCall that lets the rejection through
UnsafeCall(response) ==
    [raised |-> response = "rejects", result |-> response]

\* safeCall(ctx, data): the data, "undefined" when the call rejects
SafeCall(response) ==
    [raised |-> FALSE, result |-> IF response = "rejects" THEN "undefined" ELSE response]

\* the guard `if (!result) return undefined` and the try/catch around
\* decodeFunctionResult, common to every helper
Decoded(data) ==
    IF data \in {"undefined", "noData", "malformed"} THEN "undefined" ELSE data

\* supportsInterface: Boolean(supported)
SupportsInterface(data) ==
    IF Decoded(data) = "value" THEN "true" ELSE "false"

\* callString: the string, "" included
CallString(data) ==
    CASE Decoded(data) = "undefined" -> "undefined"
      [] Decoded(data) = "empty" -> "blank"
      [] OTHER -> "text"

\* callBytes32String: text.trim() || undefined
CallBytes32String(data) ==
    IF Decoded(data) = "value" THEN "text" ELSE "undefined"

\* callNumber / callBigInt: the number, 0 included
CallNumber(data) ==
    CASE Decoded(data) = "undefined" -> "undefined"
      [] Decoded(data) = "empty" -> "zero"
      [] OTHER -> "number"

\* callAddress: the address string, the zero address included
CallAddress(data) ==
    IF Decoded(data) = "undefined" THEN "undefined" ELSE "address"

\* normalizeTokenString
NormalizeTokenString(value) ==
    IF value \in {"undefined", "blank"} THEN "undefined" ELSE value

\* callTokenString: the better scored of the two normalised readings
CallTokenString(primary, fallback) ==
    IF NormalizeTokenString(primary) = "undefined" THEN NormalizeTokenString(fallback)
    ELSE NormalizeTokenString(primary)

\* the helper that reads probe p
ReadProbe(p, data) ==
    CASE p \in {"supports721", "supports1155"} -> SupportsInterface(data)
      [] p \in {"name", "symbol"} -> CallString(data)
      [] p \in {"nameBytes32", "symbolBytes32"} -> CallBytes32String(data)
      [] p \in {"decimals", "totalSupply", "totalAssets"} -> CallNumber(data)
      [] OTHER -> CallAddress(data)

\* JavaScript truthiness of a helper's value
IsTruthy(v) == v \notin {"undefined", "false", "blank", "zero", "pending"}

\* value !== undefined
Defined(v) == v \notin {"undefined", "pending"}

\* a test of the fungible fields by truthiness alone
FungibleTruthy(r) ==
    \/ IsTruthy(r["decimals"]) \/ IsTruthy(r["totalSupply"])
    \/ IsTruthy(CallTokenString(r["name"], r["nameBytes32"]))
    \/ IsTruthy(CallTokenString(r["symbol"], r["symbolBytes32"]))

\* decimals !== undefined || totalSupply !== undefined || name || symbol
FungibleResolved(r) ==
    \/ Defined(r["decimals"]) \/ Defined(r["totalSupply"])
    \/ IsTruthy(CallTokenString(r["name"], r["nameBytes32"]))
    \/ IsTruthy(CallTokenString(r["symbol"], r["symbolBytes32"]))

\* asset && totalAssets !== undefined
VaultResolved(r) == IsTruthy(r["asset"]) /\ Defined(r["totalAssets"])

\* what enrich decides on, from the values its helpers returned
Decide(r) ==
    [supports721 |-> r["supports721"] = "true",
     supports1155 |-> r["supports1155"] = "true",
     erc20 |-> FungibleResolved(r),
     vault |-> VaultResolved(r)]

\* the number of probes enrich makes: the two interface probes, the four
\* name and symbol reads, and the fungible and vault reads unless an
\* interface is supported
PlanLength(r) ==
    IF r["supports721"] = "pending" \/ r["supports1155"] = "pending" THEN 2
    ELSE IF r["supports721"] = "true" \/ r["supports1155"] = "true" THEN 6
    ELSE Len(ProbeNames)

DetectorInit ==
    /\ PipelineIdle
    /\ ResolverIdle
    /\ chains = <<>> /\ roundRobin = FALSE /\ hasBackground = FALSE
    /\ fastPipeline = <<>> /\ backgroundPipeline = <<>>
    /\ picks = 0
    /\ rotation = [ch \in AllChains |-> NoRotation]
    /\ LimiterIdle
    /\ ClientIdle
    /\ ExtraIdle
    /\ \E at \in BasicsAt : \E hasCode, isProxy \in BOOLEAN :
          info = ContractBasicsEnrich(NewInfo(TRUE), at, hasCode, isProxy)
    /\ stage = 2

\* the next probe of enrich is answered; after the last one enrich classifies
DetectorProbe(response) ==
    /\ Reached("erc-detector") /\ Supports("erc-detector", info)
    /\ ~det.done
    /\ LET p == ProbeNames[det.pc + 1]
           call == SafeCall(response)
           value == ReadProbe(p, call.result)
           res == [det.res EXCEPT ![p] = value]
           failed == IF response \in {"rejects", "noData", "malformed"}
                     THEN det.failed \cup {p} ELSE det.failed
           last == det.pc + 1 = PlanLength(res)
       IN IF call.raised
          THEN /\ det' = [det EXCEPT !.done = TRUE, !.raised = TRUE, !.pc = @ + 1,
                                     !.failed = failed]
               /\ UNCHANGED info
          ELSE /\ det' = [det EXCEPT !.pc = @ + 1, !.res = res, !.failed = failed,
                                     !.done = last]
               /\ info' = IF last THEN ErcDetectorEnrich(info, Decide(res)) ELSE info
    /\ UNCHANGED <<pipeVars, resolverVars, picks, rotation, limVars, clientVars, httpVars, acctVars, selVars,
                   docVars, stage>>

DetectorNext == \E response \in Responses : DetectorProbe(response)

SpecDetector == DetectorInit /\ [][DetectorNext]_vars

(***************************************************************************)
(* SpecAccount: one network of AddressResolver.resolve after its code      *)
(* probe succeeded: the record built from the code and the run of the fast *)
(* pipeline (eoa-basics, contract-basics, erc-detector) over it.           *)
(***************************************************************************)
\* what eth_getCode answers: the empty code, deployed bytecode, and a
\* response without result (request returns data.result unchecked)
Codes == {"0x", "0x6080", "0x363d3d", "0xfe", "null"}

\* the hex digits after "0x" of an eth_getTransactionCount answer
NonceReplies == {<<0>>, <<1>>, <<1, 10>>, <<15, 15>>}

\* what eth_getBalance answers
BalanceReplies == {"0x0", "0x1bc16d674ec80000"}

\* a read that rejects
Rejected == <<>>

\* an account-basics enricher that applies to every record
AlwaysSupports(id, i) == TRUE

\* supports(ctx) of the fast pipeline's enrichers
FastSupports(id, i) ==
    IF id = "eoa-basics" THEN ~i.isContract ELSE i.isContract

AccountEnrichers ==
    << [id |-> "eoa-basics", priority |-> 5],
       [id |-> "contract-basics", priority |-> 10],
       [id |-> "erc-detector", priority |-> 20] >>

AccountPipeline == SortByPriority(AccountEnrichers)

\* parseInt(nonce, 16) of "0x" followed by the digits
RECURSIVE ParseInt16(_)
ParseInt16(digits) ==
    IF digits = <<>> THEN 0
    ELSE 16 * ParseInt16(SubSeq(digits, 1, Len(digits) - 1)) + digits[Len(digits)]

\* the record resolve builds from the code: isContract = code !== "0x"
InfoOf(code) == NewInfo(code # "0x")

\* EoaBasicsEnricher.enrich: Promise.all of the two reads, then the two fields
EoaBasicsEnrich(i, balanceRead, nonceRead) ==
    IF balanceRead = "" \/ nonceRead = Rejected THEN i
    ELSE [i EXCEPT !.nativeBalanceWei = TRUE, !.nonce = <<ParseInt16(nonceRead)>>]

FastReached(id) ==
    /\ stage \in 1..Len(AccountPipeline)
    /\ AccountPipeline[stage].id = id

AccountInit ==
    /\ PipelineIdle
    /\ ResolverIdle
    /\ chains = <<>> /\ roundRobin = FALSE /\ hasBackground = FALSE
    /\ fastPipeline = <<>> /\ backgroundPipeline = <<>>
    /\ picks = 0
    /\ rotation = [ch \in AllChains |-> NoRotation]
    /\ LimiterIdle
    /\ ClientIdle
    /\ HttpIdle
    /\ DetectorIdle
    /\ ChainsIdle
    /\ DocsIdle
    /\ \E code \in Codes :
          /\ acct = [NoAccount EXCEPT !.code = code]
          /\ info = InfoOf(code)
    /\ stage = 1

\* supports(ctx) is false: continue
FastSkip ==
    /\ acct.code # ""
    /\ stage \in 1..Len(AccountPipeline)
    /\ ~FastSupports(AccountPipeline[stage].id, info)
    /\ stage' = stage + 1
    /\ UNCHANGED <<pipeVars, resolverVars, picks, rotation, limVars, clientVars, httpVars,
                   detVars, selVars, docVars, info, acct>>

\* eoa-basics runs; a read that rejects makes enrich raise, which run() logs
RunEoaBasics ==
    /\ acct.code # ""
    /\ FastReached("eoa-basics") /\ FastSupports("eoa-basics", info)
    /\ \E balanceRead \in BalanceReplies \cup {""} : \E nonceRead \in NonceReplies \cup {Rejected} :
          /\ info' = EoaBasicsEnrich(info, balanceRead, nonceRead)
          /\ acct' = [acct EXCEPT !.applied = Append(@, "eoa-basics"),
                                  !.balanceRead = balanceRead, !.nonceRead = nonceRead]
    /\ stage' = stage + 1
    /\ UNCHANGED <<pipeVars, resolverVars, picks, rotation, limVars, clientVars, httpVars, detVars,
                   selVars, docVars>>

FastContractBasics ==
    /\ acct.code # ""
    /\ FastReached("contract-basics") /\ FastSupports("contract-basics", info)
    /\ \E at \in BasicsAt : \E isProxy \in BOOLEAN :
       \E hasCode \in (IF acct.code = "null" THEN BOOLEAN ELSE {TRUE}) :
          info' = ContractBasicsEnrich(info, at, hasCode, isProxy)
    /\ acct' = [acct EXCEPT !.applied = Append(@, "contract-basics")]
    /\ stage' = stage + 1
    /\ UNCHANGED <<pipeVars, resolverVars, picks, rotation, limVars, clientVars, httpVars, detVars,
                   selVars, docVars>>

FastErcDetector ==
    /\ acct.code # ""
    /\ FastReached("erc-detector") /\ FastSupports("erc-detector", info)
    /\ \E probe \in Probes : info' = ErcDetectorEnrich(info, probe)
    /\ acct' = [acct EXCEPT !.applied = Append(@, "erc-detector")]
    /\ stage' = stage + 1
    /\ UNCHANGED <<pipeVars, resolverVars, picks, rotation, limVars, clientVars, httpVars, detVars,
                   selVars, docVars>>

AccountNext ==
    \/ FastSkip
    \/ RunEoaBasics
    \/ FastContractBasics
    \/ FastErcDetector

SpecAccount == AccountInit /\ [][AccountNext]_vars

(***************************************************************************)
(* SpecChains: resolveChains(settings), for every mode, user chain list    *)
(* and workspace allowlist of bounded length.                              *)
(***************************************************************************)
\* DEFAULT_CHAINS: Ethereum, Optimism, Polygon, Arbitrum, Base
DefaultChains ==
    << [chainId |-> 1, name |-> "default"], [chainId |-> 10, name |-> "default"],
       [chainId |-> 137, name |-> "default"], [chainId |-> 42161, name |-> "default"],
       [chainId |-> 8453, name |-> "default"] >>

ChainModes == {"workspaceLimited", "userAll", "singleChain"}

\* the chains a user may configure: overrides of defaults and a new network
UserChainChoices == [chainId : {1, 137, 100}, name : {"mine", "fork"}]

\* the ids a workspace allowlist may name: known ids and one that is not
AllowlistIds == {1, 10, 100, 5}

\* a Map.set that always adds an entry
MapAppend(map, chain) == Append(map, chain)

\* Map.set(chain.chainId, chain) on a map kept as its entries in insertion
\* order: an existing key keeps its position
MapSet(map, chain) ==
    IF \E i \in DOMAIN map : map[i].chainId = chain.chainId
    THEN [i \in DOMAIN map |-> IF map[i].chainId = chain.chainId THEN chain ELSE map[i]]
    ELSE Append(map, chain)

\* the loop over settings.userChains
RECURSIVE SetAll(_, _)
SetAll(map, userChains) ==
    IF userChains = <<>> THEN map
    ELSE SetAll(MapSet(map, Head(userChains)), Tail(userChains))

\* chainMap.get(chainId) ?? fallback
MapGetOr(map, chainId, fallback) ==
    IF \E i \in DOMAIN map : map[i].chainId = chainId
    THEN map[CHOOSE i \in DOMAIN map : map[i].chainId = chainId]
    ELSE fallback

\* resolveChains(settings)
ResolveChains(s) ==
    LET candidates == SetAll(DefaultChains, s.userChains)
        fallback == candidates[1]
        chainId == IF s.workspaceAllowlist # <<>> THEN s.workspaceAllowlist[1]
                   ELSE fallback.chainId
        Allowed(chain) == chain.chainId \in Range(s.workspaceAllowlist)
    IN CASE s.mode = "userAll" -> candidates
         [] s.mode = "singleChain" -> <<MapGetOr(candidates, chainId, fallback)>>
         [] OTHER -> SelectSeq(candidates, Allowed)

ChainsInit ==
    /\ PipelineIdle
    /\ ResolverIdle
    /\ chains = <<>> /\ roundRobin = FALSE /\ hasBackground = FALSE
    /\ fastPipeline = <<>> /\ backgroundPipeline = <<>>
    /\ picks = 0
    /\ rotation = [ch \in AllChains |-> NoRotation]
    /\ LimiterIdle
    /\ ClientIdle
    /\ ClassifyIdle
    /\ HttpIdle /\ DetectorIdle /\ AccountIdle /\ DocsIdle
    /\ \E mode \in ChainModes :
       \E userChains \in SeqsUpTo(UserChainChoices, MaxUserChains) :
       \E allowlist \in SeqsUpTo(AllowlistIds, MaxAllowlist) :
          settings = [mode |-> mode, workspaceAllowlist |-> allowlist,
                      userChains |-> userChains]
    /\ resolved = NotResolved

ResolveChainsCall ==
    /\ ~resolved.called
    /\ resolved' = [called |-> TRUE, chains |-> ResolveChains(settings)]
    /\ UNCHANGED <<pipeVars, resolverVars, coreAux, httpVars, detVars, acctVars, docVars,
                   settings>>

ChainsNext == ResolveChainsCall

SpecChains == ChainsInit /\ [][ChainsNext]_vars

(***************************************************************************)
(* SpecDocs: the DocumentResolver: documents are scheduled, their debounce *)
(* timers expire and queue the addresses they hold, pump starts resolve()  *)
(* calls, calls settle and their finally callbacks run.                    *)
(***************************************************************************)
Documents == {"A.sol", "B.sol"}

Addresses == {"0xaa", "0xbb", "0xcc"}

\* the addresses of a document that the cache does not serve, in the order
\* of their first occurrence
Occurrences ==
    {s \in SeqsUpTo(Addresses, Cardinality(Addresses)) :
        \A i, j \in DOMAIN s : i # j => s[i] # s[j]}

\* a pump that starts everything queued
RECURSIVE PumpAll(_)
PumpAll(d) ==
    IF d.queue # <<>>
    THEN PumpAll([d EXCEPT !.queue = Tail(@), !.running = @ + 1,
                           !.active = @ \cup {Head(d.queue)}])
    ELSE d

\* pump()
RECURSIVE Pump(_)
Pump(d) ==
    IF d.running < d.maxConcurrent /\ d.queue # <<>>
    THEN Pump([d EXCEPT !.queue = Tail(@), !.running = @ + 1,
                        !.active = @ \cup {Head(d.queue)}])
    ELSE d

\* a queueFromDocument that does not look at the in-flight set
RECURSIVE EnqueueAlways(_, _)
EnqueueAlways(d, occurrences) ==
    IF occurrences = <<>> THEN d
    ELSE EnqueueAlways([d EXCEPT !.queue = Append(@, Head(occurrences)),
                                 !.inflight = @ \cup {Head(occurrences)}],
                       Tail(occurrences))

\* the loop of queueFromDocument: push what is not in flight
RECURSIVE Enqueue(_, _)
Enqueue(d, occurrences) ==
    IF occurrences = <<>> THEN d
    ELSE LET address == Head(occurrences)
         IN Enqueue(IF address \in d.inflight THEN d
                    ELSE [d EXCEPT !.queue = Append(@, address),
                                   !.inflight = @ \cup {address}],
                    Tail(occurrences))

DocsInit ==
    /\ PipelineIdle
    /\ ResolverIdle
    /\ chains = <<>> /\ roundRobin = FALSE /\ hasBackground = FALSE
    /\ fastPipeline = <<>> /\ backgroundPipeline = <<>>
    /\ picks = 0
    /\ rotation = [ch \in AllChains |-> NoRotation]
    /\ LimiterIdle
    /\ ClientIdle
    /\ ClassifyIdle
    /\ HttpIdle /\ DetectorIdle /\ AccountIdle /\ ChainsIdle
    /\ \E maxConcurrent \in 0..MaxConcurrent :
          docs = [NoDocuments EXCEPT !.maxConcurrent = maxConcurrent]

\* scheduleDocument(doc): accepted is false when an early return is taken
ScheduleDocument(doc, accepted) ==
    /\ docs.maxConcurrent # Unconstructed
    /\ docs' = IF accepted THEN [docs EXCEPT !.timers = @ \cup {doc}] ELSE docs
    /\ UNCHANGED <<pipeVars, resolverVars, coreAux, httpVars, detVars, acctVars, selVars>>

\* the debounce timer of doc fires: queueFromDocument(doc)
DebounceExpires(doc) ==
    /\ doc \in docs.timers
    /\ \E occurrences \in Occurrences :
          docs' = Pump(Enqueue([docs EXCEPT !.timers = @ \ {doc}], occurrences))
    /\ UNCHANGED <<pipeVars, resolverVars, coreAux, httpVars, detVars, acctVars, selVars>>

\* resolver.resolve(address) fulfils or rejects
ResolveSettles(address, fulfilled) ==
    /\ address \in docs.active
    /\ docs' = [docs EXCEPT !.active = @ \ {address}, !.settled = @ \cup {address},
                            !.rejected = IF fulfilled THEN @ ELSE @ \cup {address}]
    /\ UNCHANGED <<pipeVars, resolverVars, coreAux, httpVars, detVars, acctVars, selVars>>

\* a callback attached with then(): a rejected call skips it
ReleaseFulfilled(d, address) ==
    IF address \in d.rejected
    THEN [d EXCEPT !.settled = @ \ {address}, !.rejected = @ \ {address}]
    ELSE [d EXCEPT !.settled = @ \ {address}, !.running = @ - 1,
                   !.inflight = @ \ {address}]

\* .catch(() => undefined).finally(...): the slot and the address are released
\* whether the call fulfilled or rejected
Release(d, address) ==
    [d EXCEPT !.settled = @ \ {address}, !.rejected = @ \ {address},
              !.running = @ - 1, !.inflight = @ \ {address}]

\* the finally callback of a settled call
FinallyRuns(address) ==
    /\ address \in docs.settled
    /\ docs' = Pump(Release(docs, address))
    /\ UNCHANGED <<pipeVars, resolverVars, coreAux, httpVars, detVars, acctVars, selVars>>

DocsNext ==
    \/ \E doc \in Documents : \E accepted \in BOOLEAN : ScheduleDocument(doc, accepted)
    \/ \E doc \in Documents : DebounceExpires(doc)
    \/ \E address \in Addresses : \E fulfilled \in BOOLEAN : ResolveSettles(address, fulfilled)
    \/ \E address \in Addresses : FinallyRuns(address)

SpecDocs == DocsInit /\ [][DocsNext]_vars

\* every resolve() call settles, and the callback of a settled promise runs
DocsFairness ==
    \A address \in Addresses :
       /\ WF_vars(\E fulfilled \in BOOLEAN : ResolveSettles(address, fulfilled))
       /\ WF_vars(FinallyRuns(address))

SpecDocsLive == SpecDocs /\ DocsFairness

(***************************************************************************)
(* C23 - the metadata and price clients never raise for remote failures:   *)
(* getContractMetadata, getContractCreation and getPrice return absent,    *)
(* and do not throw, when the remote answers with a non-2xx status, the    *)
(* request fails at transport level, or the body cannot be parsed.         *)
(***************************************************************************)
RemoteFailures == {"status", "transport", "unparsable"}

C23_AbsentOnRemoteFailure ==
    \A c \in Callers :
       hcall[c].outcome \in RemoteFailures =>
          hcall[c].st = "returned" /\ hcall[c].ret = "absent"

(***************************************************************************)
(* C24 - every outbound request of the metadata, creation-lookup and price *)
(* clients is admitted by the rate limiter and guarded by the circuit      *)
(* breaker: a request is sent only after a successful acquire() for that   *)
(* call, and never while the client is cooling down.                       *)
(***************************************************************************)
C24_AdmittedAndGuarded ==
    [][\A c \in Callers :
          hcall[c].st # "fetching" /\ hcall'[c].st = "fetching" =>
             /\ acq'[c].st = "resolved" /\ acq'[c].took = 1
             /\ ~IsCoolingDown]_vars

(***************************************************************************)
(* C25 - price TTL cache: while the remote answers every request           *)
(* successfully, at most one request for the key is issued within any TTL  *)
(* window, overlapping getPrice calls included.                            *)
(***************************************************************************)
C25_OneRequestPerWindow ==
    ~remoteFailed =>
        \A i, j \in DOMAIN priceRequests :
           i < j => priceRequests[j] - priceRequests[i] >= PriceTtlMs

(***************************************************************************)
(* C26 - decision table of the standard detector: on a contract without a  *)
(* Proxy classification, a supported multi-token or non-fungible interface *)
(* gives ERC1155 or ERC721 with confidence 0.9; otherwise one resolved     *)
(* field of name, symbol, decimals, totalSupply gives ERC20 with           *)
(* confidence 0.8, ERC4626 when asset and totalAssets both resolve; when   *)
(* no probe resolves, no classification and no token record are set.       *)
(***************************************************************************)
Finished == det.done /\ ~det.raised

TextRead(p) == det.res[p] = "text"
NumberRead(p) == det.res[p] \in {"zero", "number"}

AnyFungibleField ==
    \/ TextRead("name") \/ TextRead("nameBytes32")
    \/ TextRead("symbol") \/ TextRead("symbolBytes32")
    \/ NumberRead("decimals") \/ NumberRead("totalSupply")

BothVaultFields == det.res["asset"] = "address" /\ NumberRead("totalAssets")

NoVaultField == det.res["asset"] # "address" /\ ~NumberRead("totalAssets")

Classified(type, confidence) ==
    /\ info.classification = [type |-> type, confidence |-> confidence, proxyType |-> ""]
    /\ info.token = type

C26_DecisionTable ==
    Finished /\ info.classification.type # "Proxy" =>
        LET multi == det.res["supports1155"] = "true"
            nonFungible == det.res["supports721"] = "true"
        IN /\ multi => Classified("ERC1155", "0.9")
           /\ ~multi /\ nonFungible => Classified("ERC721", "0.9")
           /\ ~multi /\ ~nonFungible /\ AnyFungibleField /\ ~BothVaultFields =>
                  Classified("ERC20", "0.8")
           /\ ~multi /\ ~nonFungible /\ AnyFungibleField /\ BothVaultFields =>
                  Classified("ERC4626", "0.8")
           /\ ~multi /\ ~nonFungible /\ ~AnyFungibleField /\ NoVaultField =>
                  info.classification = NoClassification /\ info.token = ""

C26_Witness ==
    /\ Finished
    /\ Classified("ERC20", "0.8")
    /\ det.res["decimals"] = "zero"
    /\ ~TextRead("name") /\ ~TextRead("nameBytes32")
    /\ ~TextRead("symbol") /\ ~TextRead("symbolBytes32")
    /\ det.res["totalSupply"] = "undefined"
    /\ det.res["asset"] = "address" /\ det.res["totalAssets"] = "undefined"

(***************************************************************************)
(* C27 - safe-call isolation: whatever the probes answer (rejection,       *)
(* revert, no data, malformed data), enrich never raises, each failed      *)
(* probe reads as an unknown field (an interface probe as unsupported),    *)
(* and the remaining probes of the decision flow are still made.           *)
(***************************************************************************)
Probed(p) == det.res[p] # "pending"

C27_SafeCallIsolation ==
    /\ ~det.raised
    /\ \A p \in det.failed :
          det.res[p] = IF p \in {"supports721", "supports1155"} THEN "false" ELSE "undefined"
    /\ det.done =>
          /\ \A p \in {"supports721", "supports1155", "name", "nameBytes32",
                        "symbol", "symbolBytes32"} : Probed(p)
          /\ det.res["supports721"] = "false" /\ det.res["supports1155"] = "false" =>
                 \A p \in {"decimals", "totalSupply", "asset", "totalAssets"} : Probed(p)

C27_Witness ==
    /\ det.done /\ ~det.raised
    /\ {"supports721", "supports1155", "name", "decimals", "asset"} \subseteq det.failed
    /\ det.res["symbol"] = "text"
    /\ det.res["totalAssets"] = "number"
    /\ info.token = "ERC20"

(***************************************************************************)
(* C28 - EOA resolution: a network whose code probe returns "0x" gets a    *)
(* record with kind EOA, exists true and isContract false; of the fast     *)
(* pipeline only eoa-basics applies to it, which sets the balance and the  *)
(* integer nonce when both reads succeed, and no contract sub-record is    *)
(* created.  For non-empty code the record has kind Contract and           *)
(* eoa-basics does not apply.                                              *)
(***************************************************************************)
PipelineOver == stage > Len(AccountPipeline)

\* the value of a hexadecimal quantity of at most two digits
HexValue(digits) ==
    IF Len(digits) = 1 THEN digits[1] ELSE 16 * digits[1] + digits[2]

C28_EoaResolution ==
    /\ acct.code = "0x" =>
          /\ info.kind = "EOA" /\ info.exists /\ ~info.isContract
          /\ ~info.contract
          /\ Range(acct.applied) \subseteq {"eoa-basics"}
          /\ PipelineOver => acct.applied = <<"eoa-basics">>
          /\ PipelineOver /\ acct.balanceRead # "" /\ acct.nonceRead # Rejected =>
                 /\ info.nativeBalanceWei
                 /\ info.nonce = <<HexValue(acct.nonceRead)>>
                 /\ info.nonce[1] \in Nat
    /\ acct.code \in {"0x6080", "0x363d3d", "0xfe"} =>
          /\ info.kind = "Contract" /\ info.isContract
          /\ "eoa-basics" \notin Range(acct.applied)

C28_Witness ==
    /\ acct.code = "0x" /\ PipelineOver
    /\ acct.applied = <<"eoa-basics">>
    /\ acct.nonceRead = <<1, 10>> /\ info.nonce = <<26>>
    /\ info.nativeBalanceWei /\ ~info.contract

(***************************************************************************)
(* C29 - resolveChains: in workspaceLimited mode the result is exactly the *)
(* chains (defaults overlaid by the user chains of the same id) whose id   *)
(* is in the workspace allowlist, each once; in userAll mode it is every   *)
(* chain of the overlay; in singleChain mode it is exactly one chain: the  *)
(* one named by the first allowlist entry when that id is known, otherwise *)
(* the first candidate.                                                    *)
(***************************************************************************)
DefaultIds == {DefaultChains[i].chainId : i \in DOMAIN DefaultChains}
UserIds == {settings.userChains[i].chainId : i \in DOMAIN settings.userChains}
KnownIds == DefaultIds \cup UserIds

\* the chain an id stands for: the last user chain of that id, else the default
Overlaid(id) ==
    IF id \in UserIds
    THEN LET last == CHOOSE i \in DOMAIN settings.userChains :
                        /\ settings.userChains[i].chainId = id
                        /\ \A j \in DOMAIN settings.userChains :
                              settings.userChains[j].chainId = id => j <= i
         IN settings.userChains[last]
    ELSE [chainId |-> id, name |-> "default"]

EachOnce(seq) == Cardinality(Range(seq)) = Len(seq)

C29_ResolveChains ==
    resolved.called =>
        LET allow == Range(settings.workspaceAllowlist)
            out == resolved.chains
        IN CASE settings.mode = "workspaceLimited" ->
                   /\ Range(out) = {Overlaid(id) : id \in KnownIds \cap allow}
                   /\ EachOnce(out)
             [] settings.mode = "userAll" ->
                   /\ Range(out) = {Overlaid(id) : id \in KnownIds}
                   /\ EachOnce(out)
             [] OTHER ->
                   /\ Len(out) = 1
                   /\ out[1] = IF settings.workspaceAllowlist # <<>>
                                  /\ settings.workspaceAllowlist[1] \in KnownIds
                               THEN Overlaid(settings.workspaceAllowlist[1])
                               ELSE Overlaid(DefaultChains[1].chainId)

C29_Witness ==
    /\ resolved.called
    /\ settings.mode = "workspaceLimited"
    /\ settings.userChains = << [chainId |-> 1, name |-> "mine"], [chainId |-> 100, name |-> "fork"] >>
    /\ settings.workspaceAllowlist = <<100, 1>>
    /\ resolved.chains = << [chainId |-> 1, name |-> "mine"], [chainId |-> 100, name |-> "fork"] >>

(***************************************************************************)
(* C30 - DocumentResolver concurrency bound: after any schedules, debounce *)
(* expiries and completions, the number of resolve() calls started and not *)
(* yet settled, and the running counter, are never greater than            *)
(* maxConcurrent and never negative.                                       *)
(***************************************************************************)
C30_ConcurrencyBound ==
    docs.maxConcurrent # Unconstructed =>
        /\ docs.running >= 0
        /\ docs.running <= docs.maxConcurrent
        /\ Cardinality(docs.active) <= docs.running

C30_Witness ==
    /\ docs.maxConcurrent = 2
    /\ docs.running = 2
    /\ Cardinality(docs.active) = 1 /\ Cardinality(docs.settled) = 1
    /\ Len(docs.queue) = 1

(***************************************************************************)
(* C33 - rate bound of the token bucket: with capacity C and window W the  *)
(* stored token count stays within 0..C, and the number of acquire() calls *)
(* that completed successfully in an interval of length T is at most       *)
(* C + floor(T * C / W); stated for the interval from the construction of  *)
(* the limiter to the present.                                             *)
(***************************************************************************)
Completed == {c \in Callers : acq[c].st = "resolved"}

RateBound(T) == limiter.maxRequests + ((T * limiter.maxRequests) \div limiter.perMs)

C33_RateBound ==
    /\ limiter.tokens \in 0..limiter.maxRequests
    /\ Cardinality(Completed) <= RateBound(now)

(***************************************************************************)
(* C34 - a disabled endpoint is never contacted: no probe of a resolve()   *)
(* is in flight to an endpoint that the pool has disabled.                 *)
(***************************************************************************)
DisabledIn(ps, ch, url) ==
    \E k \in DOMAIN ps[ch].rpcs : ps[ch].rpcs[k].url = url /\ ps[ch].rpcs[k].disabled

C34_DisabledNotContacted ==
    \A ch \in Configured :
       task[1][ch].st = "probe" => ~DisabledIn(pools, ch, CurrentUrl(task[1][ch]))

(***************************************************************************)
(* C35 - cancellation does not penalise endpoints: once the signal of a    *)
(* resolve() call has fired, no endpoint's failure count, cooldownUntil or *)
(* disabled flag changes on account of that call.                          *)
(***************************************************************************)
Penalties(ps, ch) ==
    [k \in DOMAIN ps[ch].rpcs |->
        <<ps[ch].rpcs[k].failures, ps[ch].rpcs[k].cooldownUntil, ps[ch].rpcs[k].disabled>>]

C35_CancelNotPenalised ==
    [][aborted[1] =>
          \A ch \in Configured : Penalties(pools', ch) = Penalties(pools, ch)]_vars

(***************************************************************************)
(* C36 - cache convergence under overlapping resolves: a cache write of a  *)
(* call's resolution (the second write of its background pass included)    *)
(* never replaces the resolution of a fresh scan that started later.       *)
(***************************************************************************)
StartedLater(c) == {d \in Calls : d > c /\ objs[d].made}

C36_NewerNotReplaced ==
    [][\A c \in Calls : cache' = c /\ cache # c => cache \notin StartedLater(c)]_vars

(***************************************************************************)
(* C37 - no work after cancellation: once the signal passed to resolve()   *)
(* has fired, no probe, no enrich() of the fast pipeline and no enrich()   *)
(* of the background pipeline is started on behalf of that call.           *)
(***************************************************************************)
ProbeStarted(ch) ==
    task'[1][ch].st = "probe" /\ task'[1][ch].i # task[1][ch].i

FastEnrichStarted(ch) ==
    task'[1][ch].st = "enrich" /\ task'[1][ch] # task[1][ch]

BackgroundEnrichStarted(ch) ==
    bg'[1][ch].st = "await" /\ bg'[1][ch] # bg[1][ch]

C37_NoWorkAfterCancel ==
    [][aborted[1] =>
          \A ch \in AllChains :
             ~ProbeStarted(ch) /\ ~FastEnrichStarted(ch) /\ ~BackgroundEnrichStarted(ch)]_vars

(***************************************************************************)
(* C38 - single fresh scan per address: at most one fresh scan of the      *)
(* address is in progress at any moment; a resolve() called while an       *)
(* earlier one is still scanning does not probe the endpoints again.       *)
(***************************************************************************)
Scanning == {c \in Calls : pc[c] = "scanning"}

C38_SingleFreshScan == Cardinality(Scanning) <= 1

(***************************************************************************)
(* C39 - DocumentResolver de-duplication: each address occurs at most once *)
(* in the queue, every queued address and every address being resolved is  *)
(* in the in-flight set, and an address of the in-flight set is not        *)
(* enqueued again until its resolve has settled and released it.           *)
(***************************************************************************)
Queued == Range(docs.queue)

C39_Deduplication ==
    /\ [](/\ Cardinality(Queued) = Len(docs.queue)
          /\ Queued \cup docs.active \cup docs.settled \subseteq docs.inflight
          /\ Queued \cap (docs.active \cup docs.settled) = {})
    /\ [][\A address \in docs.inflight :
             Len(SelectSeq(docs'.queue, LAMBDA a : a = address))
                <= Len(SelectSeq(docs.queue, LAMBDA a : a = address))]_vars

C39_Witness ==
    /\ docs.maxConcurrent = 1
    /\ Len(docs.queue) = 2
    /\ Cardinality(docs.active) = 1
    /\ docs.inflight = Addresses
    /\ docs.timers = Documents

(***************************************************************************)
(* C40 - DocumentResolver progress: with maxConcurrent >= 1 and every      *)
(* resolve() settling, every address in flight (queued or resolving) is    *)
(* eventually released from the in-flight set, a rejected call like a      *)
(* fulfilled one, and once no timer is pending any more the queue drains   *)
(* and the running counter returns to 0.                                   *)
(***************************************************************************)
Drained == docs.queue = <<>> /\ docs.running = 0 /\ docs.inflight = {}

C40_Progress ==
    /\ \A address \in Addresses :
          (docs.maxConcurrent >= 1 /\ address \in docs.inflight)
             ~> (address \notin docs.inflight)
    /\ <>[](docs.maxConcurrent >= 1 /\ docs.timers = {}) => <>[]Drained

C40_Witness ==
    /\ docs.maxConcurrent = 1
    /\ docs.running = 1
    /\ docs.rejected # {}
    /\ Len(docs.queue) = 2

(***************************************************************************)
(* C31 - background pass completion: when a background pipeline is         *)
(* configured and resolve() returns a fresh scan, the background pipeline  *)
(* is run on the perChain record of every network whose probe succeeded    *)
(* and on no other network, the pass makes no report to the pool and no    *)
(* probe, and once all of its runs have settled the same resolution object *)
(* is written to the cache again.                                          *)
(***************************************************************************)
ProbeSucceeded(c, ch) ==
    /\ ch \in Configured
    /\ \E k \in DOMAIN task[c][ch].probeOk : task[c][ch].probeOk[k]

RunsSettled(c) == \A ch \in AllChains : bg[c][ch].st # "await"

C31_BackgroundPass ==
    [][\A c \in Calls :
          /\ (hasBackground /\ pc[c] = "persisting" /\ pc'[c] = "returned") =>
                /\ bgpc'[c] = "running"
                /\ \A ch \in AllChains : bg'[c][ch] # RunReady <=> ProbeSucceeded(c, ch)
          /\ (bgpc[c] = "none" /\ bgpc'[c] # "none") =>
                hasBackground /\ objs[c].made /\ result'[c] = c
          /\ bgpc[c] = "running" =>
                /\ reportLog'[c] = reportLog[c] /\ task'[c] = task[c]
                /\ \A ch \in AllChains :
                      objs'[c].perChain[ch] # objs[c].perChain[ch] =>
                         ProbeSucceeded(c, ch) /\ bg[c][ch].st = "await"
                /\ RunsSettled(c) => ENABLED BackgroundStore(c)
          /\ (bgpc[c] = "running" /\ bgpc'[c] # "running") =>
                RunsSettled(c) /\ cache' = c /\ objs'[c] = objs[c]]_vars

\* the pass of a scan with one network reached and one not has run its
\* enricher and written the resolution again
C31_Witness ==
    \E c \in Calls : \E ch, other \in Configured :
       /\ bgpc[c] = "done" /\ cache = c
       /\ ProbeSucceeded(c, ch)
       /\ \E k \in DOMAIN objs[c].perChain[ch].marks :
             objs[c].perChain[ch].marks[k] = backgroundPipeline[1].id
       /\ ~ProbeSucceeded(c, other) /\ objs[c].perChain[other] = NoInfo

(***************************************************************************)
(* C32 - RateLimiter.acquire terminates: a call never waits more often     *)
(* than the iteration cap, a call that has used the cap has ended, and     *)
(* every wait is finite and can end once it is due, for every              *)
(* configuration, the one with refill rate zero included.                  *)
(***************************************************************************)
Ended(c) == acq[c].st \in {"resolved", "rejected"}

\* the longest wait of a configuration
LongestWait == IF limiter.maxRequests = 0 THEN limiter.perMs ELSE 2 * limiter.perMs

C32_AcquireTerminates ==
    \A c \in Callers :
       /\ acq[c].attempts <= AttemptLimit
       /\ acq[c].attempts = AttemptLimit => Ended(c)
       /\ acq[c].st = "waiting" =>
             /\ acq[c].wake - now <= LongestWait
             /\ acq[c].wake <= now => ENABLED TimerFires(c)

C32_Witness ==
    \E c \in Callers :
       /\ limiter.maxRequests = 0
       /\ acq[c].attempts = AttemptLimit
       /\ acq[c].st = "resolved"
       /\ acq[c].took = 0

====
